---- MODULE Spec2Model ----
(***************************************************************************)
(* Archive metadata catalog of libpcp (src/libpcp/src/logmeta.c).          *)
(*                                                                         *)
(* The catalog is a set of hash tables hanging off __pmLogCtl:             *)
(*   l_hashindom  : indom -> chain of __pmLogInDom, newest first           *)
(*   l_hashpmid   : pmid  -> pmDesc                                        *)
(*   l_hashlabels : type  -> (ident -> chain of __pmLogLabelSet)           *)
(*   l_hashtext   : type  -> (ident -> help text)                          *)
(* and ld is the run of __pmLogLoadMeta over the metadata file.            *)
(* A singly linked chain (next pointers) is a sequence, head first; a      *)
(* pointer into a chain is an index, 0 standing for NULL.  Memory          *)
(* allocation is assumed to succeed.                                       *)
(***************************************************************************)
EXTENDS Integers, Sequences, FiniteSets, TLC

VARIABLES l_hashindom, l_hashpmid, l_hashlabels, l_hashtext, l_pmns, ld, call, ihash, un

vars == <<l_hashindom, l_hashpmid, l_hashlabels, l_hashtext, l_pmns, ld, call, ihash, un>>

(***************************************************************************)
(* Bounds of the model.                                                    *)
(***************************************************************************)
\* most __pmLogInDom snapshots held by the catalog, all chains together
MaxSnapshots == 3
\* most nodes of l_hashpmid
MaxDescs == 3
\* most __pmLogLabelSet groups held by the catalog, all chains together
MaxGroups == 3
\* most help texts held by the catalog, all types together
MaxTexts == 3
\* most records in a metadata file
MaxRecords == 3

(***************************************************************************)
(* Return codes.                                                           *)
(***************************************************************************)
\* The PM_ERR_* values stand for the header's: distinct and negative.
PMLOGPUTINDOM_DUP == 1
PM_ERR_INDOM_LOG == -12
PM_ERR_PMID_LOG == -11
PM_ERR_NOLABELS == -13
PM_ERR_LOGCHANGETYPE == -21
PM_ERR_LOGCHANGESEM == -22
PM_ERR_LOGCHANGEINDOM == -23
PM_ERR_LOGCHANGEUNITS == -24
\* -oserror() of a failed write
EIO == -5
PM_ERR_NOTHOST == -14
PM_ERR_TEXT == -15
PM_ERR_LOGREC == -16
PM_ERR_PMID == -17
PM_ERR_INST_LOG == -18
\* -oserror() of a failed malloc
ENOMEM == -7

\* metadata record types
TYPE_DESC == 1
TYPE_INDOM_V2 == 2
TYPE_LABEL_V2 == 3
TYPE_TEXT == 4
TYPE_INDOM == 5
TYPE_INDOM_DELTA == 6
TYPE_LABEL == 7

\* limits of a label set
PM_MAXLABELS == 255
PM_MAXLABELJSONLEN == 65536

\* help text types
PM_TEXT_ONELINE == 1
PM_TEXT_HELP == 2
PM_TEXT_PMID == 4
PM_TEXT_INDOM == 8
PM_TEXT_DIRECT == 16

\* label types and flags, and the null identifier (0xffffffff, written as
\* the 32-bit pattern read as a signed number)
PM_LABEL_CONTEXT == 1
PM_LABEL_ITEM == 16
PM_LABEL_COMPOUND == 64
PM_LABEL_OPTIONAL == 128
PM_ID_NULL == -1

(***************************************************************************)
(* The hash table primitive: a table is the sequence of its nodes, the     *)
(* node added last first; a search returns the first node with the key.    *)
(***************************************************************************)
RECURSIVE HashSearchFrom(_, _, _)
HashSearchFrom(key, hcp, i) ==
    IF i > Len(hcp) THEN 0
    ELSE IF hcp[i].key = key THEN i
    ELSE HashSearchFrom(key, hcp, i + 1)

\* __pmHashSearch: the index of the node found, 0 for NULL
HashSearch(key, hcp) ==
    HashSearchFrom(key, hcp, 1)

\* __pmHashAdd: a new node, whether or not the key is already present
HashAdd(key, data, hcp) ==
    <<[key |-> key, data |-> data]>> \o hcp

\* hp->data = data, for the node at index hp
HashSetData(hcp, hp, data) ==
    [hcp EXCEPT ![hp] = [key |-> hcp[hp].key, data |-> data]]

(***************************************************************************)
(* Chains.                                                                 *)
(***************************************************************************)
\* link x after the node at index prev; prev = 0 links it at the head
InsertAfter(chain, prev, x) ==
    SubSeq(chain, 1, prev) \o <<x>> \o SubSeq(chain, prev + 1, Len(chain))

\* unlink the node at index i
Unlink(chain, i) ==
    SubSeq(chain, 1, i - 1) \o SubSeq(chain, i + 1, Len(chain))

(***************************************************************************)
(* Timestamps: (sec, nsec), compared on sec and then on nsec.              *)
(***************************************************************************)
pmTimestampCmp(a, b) ==
    IF a.sec /= b.sec THEN (IF a.sec < b.sec THEN -1 ELSE 1)
    ELSE IF a.nsec /= b.nsec THEN (IF a.nsec < b.nsec THEN -1 ELSE 1)
    ELSE 0

Stamps ==
    { [sec |-> 1, nsec |-> 2], [sec |-> 2, nsec |-> 1], [sec |-> 2, nsec |-> 2] }

\* an optional argument (a pointer that may be NULL) is <<>> or <<value>>
NULL == <<>>

\* what a query is asked for: the address of a time, or NULL for the latest
QueryStamps ==
    { <<t>> : t \in Stamps \cup { [sec |-> 1, nsec |-> 1], [sec |-> 2, nsec |-> 3] } }
        \cup { NULL }

(***************************************************************************)
(* Instance domains.                                                       *)
(***************************************************************************)
sameinst(a, b, index) ==
    IF a.instlist[index] /= b.instlist[index] THEN FALSE
    ELSE a.namelist[index] = b.namelist[index]

RECURSIVE sameindom_loop(_, _, _)
sameindom_loop(idp1, idp2, i) ==
    IF i > idp1.numinst THEN i
    ELSE IF ~sameinst(idp1, idp2, i) THEN i
    ELSE sameindom_loop(idp1, idp2, i + 1)

sameindom_never(idp1, idp2) ==
    FALSE

sameindom(idp1, idp2) ==
    IF idp1.numinst /= idp2.numinst THEN FALSE
    ELSE sameindom_loop(idp1, idp2, 1) = idp1.numinst + 1

RECURSIVE addinsts_shift_le(_, _, _, _, _)
addinsts_shift_le(instlist, namelist, j, id, name) ==
    IF j > 1 /\ id <= instlist[j - 1]
    THEN addinsts_shift_le([instlist EXCEPT ![j] = instlist[j - 1]],
                           [namelist EXCEPT ![j] = namelist[j - 1]],
                           j - 1, id, name)
    ELSE [instlist |-> [instlist EXCEPT ![j] = id],
          namelist |-> [namelist EXCEPT ![j] = name]]

\* the while loop of addinsts: shift the larger ids up, then drop (id, name) in
RECURSIVE addinsts_shift(_, _, _, _, _)
addinsts_shift(instlist, namelist, j, id, name) ==
    IF j > 1 /\ id < instlist[j - 1]
    THEN addinsts_shift([instlist EXCEPT ![j] = instlist[j - 1]],
                        [namelist EXCEPT ![j] = namelist[j - 1]],
                        j - 1, id, name)
    ELSE [instlist |-> [instlist EXCEPT ![j] = id],
          namelist |-> [namelist EXCEPT ![j] = name]]

RECURSIVE addinsts_loop(_, _, _, _)
addinsts_loop(numinst, instlist, namelist, i) ==
    IF i > numinst THEN [instlist |-> instlist, namelist |-> namelist]
    ELSE LET r == addinsts_shift(instlist, namelist, i, instlist[i], namelist[i])
         IN  addinsts_loop(numinst, r.instlist, r.namelist, i + 1)

addinsts_unsorted(numinst, instlist, namelist) ==
    [numinst |-> numinst, instlist |-> instlist, namelist |-> namelist]

\* the fields addinsts sets in the __pmLogInDom
addinsts(numinst, instlist, namelist) ==
    LET r == addinsts_loop(numinst, instlist, namelist, 1)
    IN  [numinst |-> numinst, instlist |-> r.instlist, namelist |-> r.namelist]

\* the for loop of addindom: the first cached item not after idp, Len + 1 if none
RECURSIVE addindom_walk(_, _, _)
addindom_walk(chain, idp, idp_cached) ==
    IF idp_cached > Len(chain) THEN idp_cached
    ELSE IF pmTimestampCmp(chain[idp_cached].stamp, idp.stamp) <= 0 THEN idp_cached
    ELSE addindom_walk(chain, idp, idp_cached + 1)

addindom_slot_first(chain, idp, idp_cached) ==
    IF sameindom(chain[idp_cached], idp)
    THEN [dup |-> TRUE, idp_cached |-> idp_cached, idp_prev |-> idp_cached - 1]
    ELSE [dup |-> FALSE, idp_cached |-> idp_cached + 1, idp_prev |-> idp_cached]

RECURSIVE addindom_slot_none(_, _, _)
addindom_slot_none(chain, idp, idp_cached) ==
    IF idp_cached + 1 > Len(chain)
    THEN [dup |-> FALSE, idp_cached |-> 0, idp_prev |-> idp_cached]
    ELSE IF pmTimestampCmp(chain[idp_cached + 1].stamp, idp.stamp) = 0
    THEN addindom_slot_none(chain, idp, idp_cached + 1)
    ELSE [dup |-> FALSE, idp_cached |-> idp_cached + 1, idp_prev |-> idp_cached]

\* the do-while loop of addindom: look for a duplicate in the time slot
RECURSIVE addindom_slot(_, _, _)
addindom_slot(chain, idp, idp_cached) ==
    IF sameindom(chain[idp_cached], idp)
    THEN [dup |-> TRUE, idp_cached |-> idp_cached, idp_prev |-> idp_cached - 1]
    ELSE IF idp_cached + 1 > Len(chain)
    THEN [dup |-> FALSE, idp_cached |-> 0, idp_prev |-> idp_cached]
    ELSE IF pmTimestampCmp(chain[idp_cached + 1].stamp, idp.stamp) = 0
    THEN addindom_slot(chain, idp, idp_cached + 1)
    ELSE [dup |-> FALSE, idp_cached |-> idp_cached + 1, idp_prev |-> idp_cached]

\* where addindom links the item it inserts: after the node just before the slot
addindom_point_tail(idp_time, slot) ==
    slot.idp_prev

addindom_point(idp_time, slot) ==
    idp_time

addindom_relink_stay(chain, idp_time, slot) ==
    chain

\* a duplicate found further down its time slot: unlink it, link it at the head
addindom_relink(chain, idp_time, slot) ==
    InsertAfter(Unlink(chain, slot.idp_cached), idp_time, chain[slot.idp_cached])

\* addindom: [sts, hash], the return value and l_hashindom afterwards
addindom(hash, indom, tsp, numinst, instlist, namelist) ==
    LET idp == [stamp |-> tsp] @@ addinsts(numinst, instlist, namelist)
        hp  == HashSearch(indom, hash)
    IN  IF hp = 0
        THEN [sts |-> 0, hash |-> HashAdd(indom, <<idp>>, hash)]
        ELSE
          LET chain == hash[hp].data
              cur   == addindom_walk(chain, idp, 1)
          IN  IF cur <= Len(chain) /\ pmTimestampCmp(chain[cur].stamp, idp.stamp) = 0
              THEN
                LET idp_time == cur - 1
                    slot     == addindom_slot(chain, idp, cur)
                IN  IF slot.dup
                    THEN IF slot.idp_prev = idp_time
                         THEN [sts |-> PMLOGPUTINDOM_DUP, hash |-> hash]
                         ELSE [sts  |-> PMLOGPUTINDOM_DUP,
                               hash |-> HashSetData(hash, hp,
                                          addindom_relink(chain, idp_time, slot))]
                    ELSE [sts  |-> 0,
                          hash |-> HashSetData(hash, hp,
                                     InsertAfter(chain, addindom_point(idp_time, slot), idp))]
              ELSE [sts  |-> 0,
                    hash |-> HashSetData(hash, hp, InsertAfter(chain, cur - 1, idp))]

searchindom_walk_strict(chain, tsp, idp) ==
    IF \E i \in idp..Len(chain) : pmTimestampCmp(chain[i].stamp, tsp) < 0
    THEN CHOOSE i \in idp..Len(chain) :
            /\ pmTimestampCmp(chain[i].stamp, tsp) < 0
            /\ \A j \in idp..(i - 1) : pmTimestampCmp(chain[j].stamp, tsp) >= 0
    ELSE 0

\* the for loop of searchindom: first one at or earlier than tsp, 0 if none
RECURSIVE searchindom_walk(_, _, _)
searchindom_walk(chain, tsp, idp) ==
    IF idp > Len(chain) THEN 0
    ELSE IF pmTimestampCmp(chain[idp].stamp, tsp) <= 0 THEN idp
    ELSE searchindom_walk(chain, tsp, idp + 1)

\* searchindom: [hp, idp], the hash node and the snapshot found; idp = 0 is NULL
searchindom(hash, indom, tsp) ==
    LET hp == HashSearch(indom, hash)
    IN  IF hp = 0 THEN [hp |-> 0, idp |-> 0]
        ELSE IF tsp /= NULL
        THEN [hp |-> hp, idp |-> searchindom_walk(hash[hp].data, tsp[1], 1)]
        ELSE [hp |-> hp, idp |-> IF Len(hash[hp].data) = 0 THEN 0 ELSE 1]

\* __pmLogGetInDom: the return value and the lists handed back
pmLogGetInDom(hash, indom, tsp) ==
    LET r == searchindom(hash, indom, tsp)
    IN  IF r.idp = 0
        THEN [sts |-> PM_ERR_INDOM_LOG, idp |-> 0, instlist |-> <<>>, namelist |-> <<>>]
        ELSE LET idp == hash[r.hp].data[r.idp]
             IN  [sts |-> idp.numinst, idp |-> r.idp,
                  instlist |-> idp.instlist, namelist |-> idp.namelist]

\* strcmp(a, b) == 0, a string being the sequence of its characters
StrEq(a, b) ==
    a = b

\* the first n characters of s, or all of s if it is shorter
Take(s, n) ==
    SubSeq(s, 1, IF n < Len(s) THEN n ELSE Len(s))

\* strncmp(a, b, n) == 0
StrNEq(a, b, n) ==
    Take(a, n) = Take(b, n)

\* p - idp->namelist[i] after the while loop: the characters before the first
\* space, all of them if there is none
pmLogLookupInDom_span(s) ==
    IF \E k \in 1..Len(s) : s[k] = " "
    THEN (CHOOSE k \in 1..Len(s) : s[k] = " " /\ \A m \in 1..(k - 1) : s[m] /= " ") - 1
    ELSE Len(s)

\* the test of the second loop: *p == ' ' and strncmp(...) == 0
pmLogLookupInDom_half(name, s) ==
    /\ pmLogLookupInDom_span(s) < Len(s)
    /\ StrNEq(name, s, pmLogLookupInDom_span(s))

\* __pmLogLookupInDom: the return value
pmLogLookupInDom(hash, indom, tsp, name) ==
    LET r == searchindom(hash, indom, tsp)
    IN  IF r.idp = 0 THEN PM_ERR_INDOM_LOG
        ELSE LET idp  == hash[r.hp].data[r.idp]
                 full == { i \in 1..idp.numinst : StrEq(name, idp.namelist[i]) }
                 half == { i \in 1..idp.numinst :
                             pmLogLookupInDom_half(name, idp.namelist[i]) }
             IN  IF idp.numinst < 0 THEN idp.numinst
                 ELSE IF full /= {}
                 THEN idp.instlist[CHOOSE i \in full : \A k \in full : i <= k]
                 ELSE IF half /= {}
                 THEN idp.instlist[CHOOSE i \in half : \A k \in half : i <= k]
                 ELSE PM_ERR_INST_LOG

(***************************************************************************)
(* pmGetInDomArchive: the union of a chain's snapshots.  The static table  *)
(* ihash is a function from the indexes of its buckets with len > 0 to     *)
(* the ids list[0..len-1] of each; a bucket outside the domain has len 0.  *)
(* realloc is taken to succeed.  The locals of one call are a frame:       *)
(* hp is the chain found, n and j the snapshot and the instance the loops  *)
(* stand at, ilist and nlist the lists built so far (numinst is their      *)
(* length).                                                                *)
(***************************************************************************)
HASH_THRESHOLD == 16
HASH_SIZE == 509

\* the threads of the process
Threads == { 1, 2 }

\* the % of C: the quotient truncates toward zero
CRem(a, b) ==
    IF a >= 0 THEN a % b ELSE 0 - ((0 - a) % b)

NoIhash == <<>>

\* ihash[i].list[0..len-1]
Bucket(ih, i) ==
    IF i \in DOMAIN ih THEN ih[i] ELSE <<>>

\* what an access outside ihash[] can do: the word read as len is anything,
\* so the id is reported as new or as seen, or the access faults
OutOfBounds ==
    { [ret |-> 0, fault |-> FALSE], [ret |-> 1, fault |-> FALSE],
      [ret |-> 0, fault |-> TRUE] }

\* i = id % HASH_SIZE
find_add_ihash_index(id) ==
    CRem(id, HASH_SIZE)

\* find_add_ihash: [ret, fault, i, ih], ub being what an access outside the
\* table does
find_add_ihash(ih, id, ub) ==
    LET i == find_add_ihash_index(id)
    IN  IF i < 0 \/ i >= HASH_SIZE
        THEN [ret |-> ub.ret, fault |-> ub.fault, i |-> i, ih |-> ih]
        ELSE IF \E j \in 1..Len(Bucket(ih, i)) : Bucket(ih, i)[j] = id
        THEN [ret |-> 1, fault |-> FALSE, i |-> i, ih |-> ih]
        ELSE [ret |-> 0, fault |-> FALSE, i |-> i,
              ih |-> [k \in DOMAIN ih \cup { i } |->
                         IF k = i THEN Append(Bucket(ih, i), id) ELSE ih[k]]]

\* reset_ihash: every len is 0
reset_ihash(ih) ==
    NoIhash

NoQuery ==
    [pc |-> "idle", hp |-> <<>>, big_indom |-> 0, n |-> 1, j |-> 0,
     ilist |-> <<>>, nlist |-> <<>>, sts |-> 0]

NoQueries == [t \in Threads |-> NoQuery]

\* j++ of the inner loop and idp = idp->next of the outer one
RECURSIVE pmGetInDomArchive_next(_)
pmGetInDomArchive_next(fr) ==
    IF fr.n > Len(fr.hp) THEN [fr EXCEPT !.pc = "return"]
    ELSE IF fr.j + 1 <= fr.hp[fr.n].numinst THEN [fr EXCEPT !.j = fr.j + 1]
    ELSE pmGetInDomArchive_next([fr EXCEPT !.n = fr.n + 1, !.j = 0])

\* the entry of pmGetInDomArchive_ctx and its first loop: [fr, ih]
pmGetInDomArchive_enter(hash, indom, ih) ==
    LET hp == HashSearch(indom, hash)
    IN  IF hp = 0
        THEN [fr |-> [NoQuery EXCEPT !.pc = "done", !.sts = PM_ERR_INDOM_LOG],
              ih |-> ih]
        ELSE IF \E n \in 1..Len(hash[hp].data) :
                    hash[hp].data[n].numinst > HASH_THRESHOLD
        THEN [fr |-> pmGetInDomArchive_next(
                        [NoQuery EXCEPT !.pc = "loop", !.hp = hash[hp].data,
                                        !.big_indom = 1]),
              ih |-> reset_ihash(ih)]
        ELSE [fr |-> pmGetInDomArchive_next(
                        [NoQuery EXCEPT !.pc = "loop", !.hp = hash[hp].data]),
              ih |-> ih]

\* the linear search: the index (from 0) of id in ilist, numinst if absent
pmGetInDomArchive_linear(ilist, id) ==
    IF \E i \in 1..Len(ilist) : ilist[i] = id
    THEN (CHOOSE i \in 1..Len(ilist) :
              ilist[i] = id /\ \A k \in 1..(i - 1) : ilist[k] /= id) - 1
    ELSE Len(ilist)

\* if (i < numinst) continue; else the id and its name go to the end
pmGetInDomArchive_append(fr, i, id, name) ==
    IF i < Len(fr.ilist) THEN fr
    ELSE [fr EXCEPT !.ilist = Append(@, id), !.nlist = Append(@, name)]

\* the body of the inner loop with the hash table, r being what
\* find_add_ihash answered
pmGetInDomArchive_big(fr, r, id, name) ==
    IF r.fault THEN [fr |-> [fr EXCEPT !.pc = "fault"], ih |-> r.ih]
    ELSE [fr |-> pmGetInDomArchive_next(
                    pmGetInDomArchive_append(
                        fr, IF r.ret /= 0 THEN 0 ELSE Len(fr.ilist), id, name)),
          ih |-> r.ih]

\* one pass of the inner loop, for instance j of snapshot n: [fr, ih]
pmGetInDomArchive_inst(fr, ih, ub) ==
    IF fr.big_indom /= 0
    THEN pmGetInDomArchive_big(
             fr, find_add_ihash(ih, fr.hp[fr.n].instlist[fr.j], ub),
             fr.hp[fr.n].instlist[fr.j], fr.hp[fr.n].namelist[fr.j])
    ELSE [fr |-> pmGetInDomArchive_next(
                    pmGetInDomArchive_append(
                        fr,
                        pmGetInDomArchive_linear(fr.ilist, fr.hp[fr.n].instlist[fr.j]),
                        fr.hp[fr.n].instlist[fr.j], fr.hp[fr.n].namelist[fr.j])),
          ih |-> ih]

\* after the loops: n = numinst, the lists handed back
pmGetInDomArchive_return(fr) ==
    [fr EXCEPT !.pc = "done", !.sts = Len(fr.ilist)]

\* the two loops run to their end
RECURSIVE pmGetInDomArchive_loops(_, _)
pmGetInDomArchive_loops(b, ub) ==
    IF b.fr.pc = "loop"
    THEN pmGetInDomArchive_loops(pmGetInDomArchive_inst(b.fr, b.ih, ub), ub)
    ELSE IF b.fr.pc = "return"
    THEN [fr |-> pmGetInDomArchive_return(b.fr), ih |-> b.ih]
    ELSE b

\* pmGetInDomArchive_ctx as one thread runs it alone: [fr, ih]
pmGetInDomArchive(hash, indom, ih, ub) ==
    pmGetInDomArchive_loops(pmGetInDomArchive_enter(hash, indom, ih), ub)

(***************************************************************************)
(* Descriptors.                                                            *)
(***************************************************************************)
pmLogAddDesc_conflict_semfirst(newdp, olddp) ==
    IF newdp.sem /= olddp.sem THEN PM_ERR_LOGCHANGESEM
    ELSE IF newdp.type /= olddp.type THEN PM_ERR_LOGCHANGETYPE
    ELSE IF newdp.indom /= olddp.indom THEN PM_ERR_LOGCHANGEINDOM
    ELSE IF \/ newdp.units.dimSpace /= olddp.units.dimSpace
            \/ newdp.units.dimTime /= olddp.units.dimTime
            \/ newdp.units.dimCount /= olddp.units.dimCount
            \/ newdp.units.scaleSpace /= olddp.units.scaleSpace
            \/ newdp.units.scaleTime /= olddp.units.scaleTime
            \/ newdp.units.scaleCount /= olddp.units.scaleCount
    THEN PM_ERR_LOGCHANGEUNITS
    ELSE 0

\* the conflict checks of __pmLogAddDesc for a PMID already in the table
pmLogAddDesc_conflict(newdp, olddp) ==
    IF newdp.type /= olddp.type THEN PM_ERR_LOGCHANGETYPE
    ELSE IF newdp.sem /= olddp.sem THEN PM_ERR_LOGCHANGESEM
    ELSE IF newdp.indom /= olddp.indom THEN PM_ERR_LOGCHANGEINDOM
    ELSE IF \/ newdp.units.dimSpace /= olddp.units.dimSpace
            \/ newdp.units.dimTime /= olddp.units.dimTime
            \/ newdp.units.dimCount /= olddp.units.dimCount
            \/ newdp.units.scaleSpace /= olddp.units.scaleSpace
            \/ newdp.units.scaleTime /= olddp.units.scaleTime
            \/ newdp.units.scaleCount /= olddp.units.scaleCount
    THEN PM_ERR_LOGCHANGEUNITS
    ELSE 0

\* __pmLogAddDesc: [sts, hash], the return value and l_hashpmid afterwards
pmLogAddDesc(hash, newdp) ==
    LET hp == HashSearch(newdp.pmid, hash)
    IN  IF hp /= 0
        THEN [sts |-> pmLogAddDesc_conflict(newdp, hash[hp].data), hash |-> hash]
        ELSE [sts |-> 1, hash |-> HashAdd(newdp.pmid, newdp, hash)]

\* __pmLogLookupDesc: the return value and *dp
pmLogLookupDesc(hash, pmid) ==
    LET hp == HashSearch(pmid, hash)
    IN  IF hp = 0 THEN [sts |-> PM_ERR_PMID_LOG, dp |-> <<>>]
        ELSE [sts |-> 0, dp |-> <<hash[hp].data>>]

\* __pmLogPutDesc once the record is built: written tells whether __pmFwrite
\* wrote it all; [sts, hash]
pmLogPutDesc(hash, dp, written) ==
    IF ~written THEN [sts |-> EIO, hash |-> hash]
    ELSE [sts |-> 1, hash |-> HashAdd(dp.pmid, dp, hash)]

(***************************************************************************)
(* Labels.  A pmLabel is the pair of byte strings its offsets and lengths  *)
(* select in the set's json: name = json[name .. name+namelen), value      *)
(* likewise.                                                               *)
(***************************************************************************)
\* type &= ~(PM_LABEL_COMPOUND|PM_LABEL_OPTIONAL)
LabelTypeMask(type) ==
    type - ((type \div PM_LABEL_COMPOUND) % 4) * PM_LABEL_COMPOUND

\* the inner for loop of samelabelset: "found", "differ" (same name, other
\* value) or "missing" (n2 reached set2->nlabels)
RECURSIVE samelabelset_find(_, _, _)
samelabelset_find(l1, set2, n2) ==
    IF n2 > set2.nlabels THEN "missing"
    ELSE IF l1.name /= set2.labels[n2].name THEN samelabelset_find(l1, set2, n2 + 1)
    ELSE IF l1.value /= set2.labels[n2].value THEN "differ"
    ELSE "found"

RECURSIVE samelabelset_loop(_, _, _)
samelabelset_loop(set1, set2, n1) ==
    IF n1 > set1.nlabels THEN TRUE
    ELSE IF samelabelset_find(set1.labels[n1], set2, 1) /= "found" THEN FALSE
    ELSE samelabelset_loop(set1, set2, n1 + 1)

samelabelset(set1, set2) ==
    IF set1.inst /= set2.inst THEN FALSE
    ELSE IF set1.nlabels /= set2.nlabels THEN FALSE
    ELSE samelabelset_loop(set1, set2, 1)

RECURSIVE discard_dup_labelsets_loop_skip(_, _, _, _)
discard_dup_labelsets_loop_skip(nsets, labelsets, idp_next, i) ==
    IF i > nsets THEN [nsets |-> nsets, labelsets |-> labelsets]
    ELSE IF \E j \in 1..idp_next.nsets : samelabelset(labelsets[i], idp_next.labelsets[j])
    THEN discard_dup_labelsets_loop_skip(nsets - 1, Unlink(labelsets, i), idp_next, i + 1)
    ELSE discard_dup_labelsets_loop_skip(nsets, labelsets, idp_next, i + 1)

\* discard_dup_labelsets: the nsets and labelsets of idp afterwards
RECURSIVE discard_dup_labelsets_loop(_, _, _, _)
discard_dup_labelsets_loop(nsets, labelsets, idp_next, i) ==
    IF i > nsets THEN [nsets |-> nsets, labelsets |-> labelsets]
    ELSE IF \E j \in 1..idp_next.nsets : samelabelset(labelsets[i], idp_next.labelsets[j])
    THEN discard_dup_labelsets_loop(nsets - 1, Unlink(labelsets, i), idp_next, i)
    ELSE discard_dup_labelsets_loop(nsets, labelsets, idp_next, i + 1)

discard_dup_labelsets(idp, idp_next) ==
    LET r == discard_dup_labelsets_loop(idp.nsets, idp.labelsets, idp_next, 1)
    IN  [idp EXCEPT !.nsets = r.nsets, !.labelsets = r.labelsets]

\* the innermost for loop of check_dup_labels, over one chain
RECURSIVE check_dup_labels_chain(_, _)
check_dup_labels_chain(chain, idp) ==
    IF idp + 1 > Len(chain) THEN chain
    ELSE LET d == discard_dup_labelsets(chain[idp], chain[idp + 1])
         IN  IF d.nsets = 0
             THEN check_dup_labels_chain(Unlink(chain, idp), idp)
             ELSE check_dup_labels_chain([chain EXCEPT ![idp] = d], idp + 1)

\* check_dup_labels: l_hashlabels afterwards
check_dup_labels(hashlabels) ==
    [t \in 1..Len(hashlabels) |->
        [key  |-> hashlabels[t].key,
         data |-> [n \in 1..Len(hashlabels[t].data) |->
                     [key  |-> hashlabels[t].data[n].key,
                      data |-> check_dup_labels_chain(hashlabels[t].data[n].data, 1)]]]]

\* the for loop of __pmLogLookupLabel
RECURSIVE pmLogLookupLabel_walk(_, _, _)
pmLogLookupLabel_walk(chain, tsp, ls) ==
    IF ls > Len(chain) THEN 0
    ELSE IF pmTimestampCmp(chain[ls].stamp, tsp) <= 0 THEN ls
    ELSE pmLogLookupLabel_walk(chain, tsp, ls + 1)

\* __pmLogLookupLabel: the return value and *label
pmLogLookupLabel(hashlabels, type0, ident0, tsp) ==
    LET type  == LabelTypeMask(type0)
        ident == IF type = PM_LABEL_CONTEXT THEN PM_ID_NULL ELSE ident0
        hpt   == HashSearch(type, hashlabels)
    IN  IF hpt = 0 THEN [sts |-> PM_ERR_NOLABELS, label |-> <<>>]
        ELSE
          LET hpi == HashSearch(ident, hashlabels[hpt].data)
          IN  IF hpi = 0 THEN [sts |-> PM_ERR_NOLABELS, label |-> <<>>]
              ELSE
                LET chain == hashlabels[hpt].data[hpi].data
                    ls    == IF tsp /= NULL THEN pmLogLookupLabel_walk(chain, tsp[1], 1)
                             ELSE 1
                IN  IF ls = 0 THEN [sts |-> 0, label |-> <<>>]
                    ELSE [sts |-> chain[ls].nsets, label |-> chain[ls].labelsets]

addlabel_walk_before(chain, idp, idp_cached) ==
    IF \E i \in 1..Len(chain) : pmTimestampCmp(chain[i].stamp, idp.stamp) <= 0
    THEN CHOOSE i \in 1..Len(chain) :
            /\ pmTimestampCmp(chain[i].stamp, idp.stamp) <= 0
            /\ \A j \in 1..(i - 1) : pmTimestampCmp(chain[j].stamp, idp.stamp) > 0
    ELSE Len(chain) + 1

addlabel_walk_head(chain, idp, idp_cached) ==
    idp_cached

\* the for loop of addlabel: the first cached item before idp, Len + 1 if none
RECURSIVE addlabel_walk(_, _, _)
addlabel_walk(chain, idp, idp_cached) ==
    IF idp_cached > Len(chain) THEN idp_cached
    ELSE IF pmTimestampCmp(chain[idp_cached].stamp, idp.stamp) < 0 THEN idp_cached
    ELSE addlabel_walk(chain, idp, idp_cached + 1)

\* addlabel: [sts, hash], the return value and l_hashlabels afterwards
addlabel(hashlabels, type0, ident0, nsets, labelsets, tsp) ==
    LET idp   == [stamp |-> tsp, type |-> type0, ident |-> ident0,
                  nsets |-> nsets, labelsets |-> labelsets]
        type  == LabelTypeMask(type0)
        ident == IF type = PM_LABEL_CONTEXT THEN PM_ID_NULL ELSE ident0
        hpt   == HashSearch(type, hashlabels)
    IN  IF pmLogLookupLabel(hashlabels, type, ident, NULL).sts <= 0
        THEN
          IF hpt = 0
          THEN [sts  |-> 0,
                hash |-> HashAdd(type, HashAdd(ident, <<idp>>, <<>>), hashlabels)]
          ELSE [sts  |-> 0,
                hash |-> HashSetData(hashlabels, hpt,
                           HashAdd(ident, <<idp>>, hashlabels[hpt].data))]
        ELSE IF hpt = 0 THEN [sts |-> PM_ERR_NOLABELS, hash |-> hashlabels]
        ELSE
          LET l_hashtype == hashlabels[hpt].data
              hpi        == HashSearch(ident, l_hashtype)
          IN  IF hpi = 0 THEN [sts |-> PM_ERR_NOLABELS, hash |-> hashlabels]
              ELSE
                LET chain == l_hashtype[hpi].data
                    cur   == addlabel_walk(chain, idp, 1)
                IN  [sts  |-> 0,
                     hash |-> HashSetData(hashlabels, hpt,
                                HashSetData(l_hashtype, hpi,
                                  InsertAfter(chain, cur - 1, idp)))]

\* __pmLogPutLabel once the record is built: written tells whether
\* __pmFwrite wrote it all; [sts, hash]
pmLogPutLabel(hashlabels, type, ident, nsets, labelsets, tsp, written) ==
    IF ~written THEN [sts |-> EIO, hash |-> hashlabels]
    ELSE addlabel(hashlabels, type, ident, nsets, labelsets, tsp)

(***************************************************************************)
(* Help text.                                                              *)
(***************************************************************************)
\* type & bit, for a bit that is a power of two
Bit(type, bit) ==
    (type \div bit) % 2 = 1

\* type &= ~PM_TEXT_DIRECT
TextTypeMask(type) ==
    IF Bit(type, PM_TEXT_DIRECT) THEN type - PM_TEXT_DIRECT ELSE type

\* __pmLogLookupText: the return value and *buffer
pmLogLookupText(hashtext, ident, type0) ==
    LET type == TextTypeMask(type0)
        hpt  == HashSearch(type, hashtext)
    IN  IF hpt = 0 THEN [sts |-> PM_ERR_NOTHOST, buffer |-> <<>>]
        ELSE LET hpi == HashSearch(ident, hashtext[hpt].data)
             IN  IF hpi = 0 THEN [sts |-> PM_ERR_TEXT, buffer |-> <<>>]
                 ELSE [sts |-> 0, buffer |-> <<hashtext[hpt].data[hpi].data>>]

\* addtext: [sts, hash, abort]; abort tells that an assert() failed and the
\* process was ended.  The type is masked by the lookup only, the table is
\* searched under the type as passed.
addtext(hashtext, ident, type, buffer) ==
    LET lk == pmLogLookupText(hashtext, ident, type)
        hp == HashSearch(type, hashtext)
    IN  IF lk.sts < 0
        THEN IF hp = 0
             THEN [sts |-> 0, abort |-> FALSE,
                   hash |-> HashAdd(type, HashAdd(ident, buffer, <<>>), hashtext)]
             ELSE [sts |-> 0, abort |-> FALSE,
                   hash |-> HashSetData(hashtext, hp,
                              HashAdd(ident, buffer, hashtext[hp].data))]
        ELSE IF buffer = lk.buffer[1]
        THEN [sts |-> lk.sts, abort |-> FALSE, hash |-> hashtext]
        ELSE IF hp = 0
        THEN [sts |-> lk.sts, abort |-> TRUE, hash |-> hashtext]
        ELSE LET l_hashtype == hashtext[hp].data
                 hpi        == HashSearch(ident, l_hashtype)
             IN  IF hpi = 0 \/ type /= TextTypeMask(type)
                 THEN [sts |-> lk.sts, abort |-> TRUE, hash |-> hashtext]
                 ELSE [sts |-> lk.sts, abort |-> FALSE,
                       hash |-> HashSetData(hashtext, hp,
                                  HashSetData(l_hashtype, hpi, buffer))]

\* __pmLogPutText once the record is built: written tells whether
\* __pmFwrite wrote it all; [sts, hash, abort]
pmLogPutText(hashtext, ident, type, buffer, cached, written) ==
    IF ~written THEN [sts |-> EIO, abort |-> FALSE, hash |-> hashtext]
    ELSE IF cached = 0 THEN [sts |-> 0, abort |-> FALSE, hash |-> hashtext]
    ELSE addtext(hashtext, ident, type, buffer)

(***************************************************************************)
(* Inputs of the indom operations.                                         *)
(***************************************************************************)
InDoms == { 1, 2 }

\* the instance arrays a caller passes: parallel id and name arrays
InstArrays ==
    { [instlist |-> <<1>>,    namelist |-> <<"a">>],
      [instlist |-> <<1, 2>>, namelist |-> <<"a", "b">>],
      [instlist |-> <<2, 1>>, namelist |-> <<"b", "a">>],
      [instlist |-> <<1, 1>>, namelist |-> <<"a", "b">>],
      [instlist |-> <<1, 1>>, namelist |-> <<"b", "a">>] }

RECURSIVE SumLen(_, _)
SumLen(hash, i) ==
    IF i > Len(hash) THEN 0 ELSE Len(hash[i].data) + SumLen(hash, i + 1)

NoCall == [op |-> "none", arg |-> <<>>, sts |-> 0, ret |-> <<>>]

\* no metadata file is being loaded
NotLoading ==
    [pc |-> "idle", f |-> <<>>, recs |-> <<>>, pos |-> 0, numpmid |-> 0, sts |-> 0]

Init ==
    /\ l_hashindom = <<>>
    /\ l_hashpmid = <<>>
    /\ l_hashlabels = <<>>
    /\ l_hashtext = <<>>
    /\ l_pmns = <<>>
    /\ ld = NotLoading
    /\ call = NoCall
    /\ ihash = NoIhash
    /\ un = NoQueries

\* __pmLogAddInDom, the indom drawn from indoms, the stamp from stamps and the
\* instance arrays from arrays
AddInDomOf(indoms, stamps, arrays) ==
    \E indom \in indoms, tsp \in stamps, in \in arrays :
        LET r == addindom(l_hashindom, indom, tsp, Len(in.instlist),
                          in.instlist, in.namelist)
        IN  /\ SumLen(r.hash, 1) <= MaxSnapshots
            /\ l_hashindom' = r.hash
            /\ call' = [op |-> "addindom",
                        arg |-> [indom |-> indom, stamp |-> tsp,
                                 numinst |-> Len(in.instlist),
                                 instlist |-> in.instlist, namelist |-> in.namelist],
                        sts |-> r.sts, ret |-> <<>>]
            /\ UNCHANGED <<l_hashpmid, l_hashlabels, l_hashtext, l_pmns, ld, ihash, un>>

AddInDomFrom(arrays) ==
    AddInDomOf(InDoms, Stamps, arrays)

AddInDom ==
    AddInDomFrom(InstArrays)

\* the writer as the query's specification runs it: two contents are enough
\* to tell the snapshots of a chain apart
AddInDomForQuery ==
    AddInDomFrom({ in \in InstArrays : in.instlist \in { <<1>>, <<2, 1>> } })

\* __pmLogGetInDom
GetInDom ==
    \E indom \in InDoms, tsp \in QueryStamps :
        LET r == pmLogGetInDom(l_hashindom, indom, tsp)
        IN  /\ call' = [op |-> "getindom",
                        arg |-> [indom |-> indom, stamp |-> tsp],
                        sts |-> r.sts, ret |-> r]
            /\ UNCHANGED <<l_hashindom, l_hashpmid, l_hashlabels, l_hashtext, l_pmns, ld, ihash, un>>

\* the indom store under its writer alone
NextInDom ==
    AddInDom

SpecInDom == Init /\ [][NextInDom]_vars

\* the indom store under its writer and the point-in-time query
NextGetInDom ==
    \/ AddInDomForQuery
    \/ GetInDom

SpecGetInDom == Init /\ [][NextGetInDom]_vars

(***************************************************************************)
(* The indom store under its writer and the union query.                   *)
(***************************************************************************)
\* the ids 1..n and a name for each
IdsTo(n) == [k \in 1..n |-> k]
NamesTo(n) == [k \in 1..n |-> ToString(k)]

\* instance arrays for the union: small ones that share id 2 under two names,
\* and ones above HASH_THRESHOLD, one with ids that share a bucket (1 and 510)
\* and one with a negative id
UnionArrays ==
    { [instlist |-> <<1, 2>>, namelist |-> <<"a", "b">>],
      [instlist |-> <<2, 3, 2>>, namelist |-> <<"c", "d", "e">>],
      [instlist |-> <<510, 1, 510>> \o IdsTo(HASH_THRESHOLD),
       namelist |-> <<"x", "y", "z">> \o NamesTo(HASH_THRESHOLD)],
      [instlist |-> <<-3>> \o IdsTo(HASH_THRESHOLD),
       namelist |-> <<"n">> \o NamesTo(HASH_THRESHOLD)] }

\* the writer as the union's specification runs it: one chain is enough
AddInDomForUnion ==
    AddInDomOf({ 1 }, { [sec |-> 1, nsec |-> 2], [sec |-> 2, nsec |-> 1] },
               UnionArrays)

\* pmGetInDomArchive, called by thread 1 with no other query running
GetInDomArchive ==
    \E indom \in InDoms, ub \in OutOfBounds :
        \E b \in { pmGetInDomArchive(l_hashindom, indom, ihash, ub) } :
            /\ ihash' = b.ih
            /\ call' = [op |-> "getindomarchive",
                        arg |-> [indom |-> indom, thread |-> 1],
                        sts |-> b.fr.sts, ret |-> b.fr]
            /\ UNCHANGED <<l_hashindom, l_hashpmid, l_hashlabels, l_hashtext,
                           l_pmns, ld, un>>

NextUnion ==
    \/ AddInDomForUnion
    \/ GetInDomArchive

SpecUnion == Init /\ [][NextUnion]_vars

(***************************************************************************)
(* find_add_ihash and reset_ihash on the table, call by call.              *)
(***************************************************************************)
\* ids at and around the ends of the table, two pairs that share a bucket
IhashIds ==
    { -510, -3, 0, 1, HASH_SIZE - 1, HASH_SIZE, HASH_SIZE + 1 }

\* the ids passed to find_add_ihash since the last reset_ihash
IhashAdded ==
    IF call.op = "find_add_ihash" THEN call.arg.before \cup { call.arg.id } ELSE {}

FindAddIhash ==
    /\ call.op = "find_add_ihash" => ~call.ret.fault
    /\ \E id \in IhashIds, ub \in OutOfBounds :
         \E r \in { find_add_ihash(ihash, id, ub) } :
            /\ ihash' = r.ih
            /\ call' = [op |-> "find_add_ihash",
                        arg |-> [id |-> id, before |-> IhashAdded],
                        sts |-> r.ret, ret |-> [i |-> r.i, fault |-> r.fault]]
    /\ UNCHANGED <<l_hashindom, l_hashpmid, l_hashlabels, l_hashtext, l_pmns, ld, un>>

ResetIhash ==
    /\ call.op = "find_add_ihash"
    /\ ~call.ret.fault
    /\ ihash' = reset_ihash(ihash)
    /\ call' = [NoCall EXCEPT !.op = "reset_ihash"]
    /\ UNCHANGED <<l_hashindom, l_hashpmid, l_hashlabels, l_hashtext, l_pmns, ld, un>>

NextIhash ==
    \/ FindAddIhash
    \/ ResetIhash

SpecIhash == Init /\ [][NextIhash]_vars

(***************************************************************************)
(* Two threads in pmGetInDomArchive, each on its own archive context and   *)
(* under that context's lock alone.  Thread 1 queries the catalog; the     *)
(* l_hashindom of thread 2's context is an input of its call.  Nothing     *)
(* orders the threads' uses of ihash; they are interleaved here call by    *)
(* call of find_add_ihash and reset_ihash.  Each thread makes one call.    *)
(***************************************************************************)
\* the l_hashindom of a context after one call of __pmLogAddInDom
StoreOf(in) ==
    addindom(<<>>, 1, [sec |-> 1, nsec |-> 2], Len(in.instlist),
             in.instlist, in.namelist).hash

\* contexts whose ids all index ihash within its bounds, below
\* HASH_THRESHOLD and above it
UnionStores ==
    { StoreOf(in) : in \in { a \in UnionArrays : \A k \in 1..Len(a.instlist) :
                                                    a.instlist[k] >= 0 } }

\* the contexts thread 2 queries: one below HASH_THRESHOLD and one above it
\* that shares the id 1, and nothing else, with the contexts of thread 1
OtherStores ==
    { StoreOf([instlist |-> <<1, 2>>, namelist |-> <<"a", "b">>]),
      StoreOf([instlist |-> <<1>> \o [k \in 1..HASH_THRESHOLD |-> 1000 + k],
               namelist |-> <<"o">> \o NamesTo(HASH_THRESHOLD)]) }

InitUnion2 ==
    /\ l_hashindom \in UnionStores
    /\ l_hashpmid = <<>>
    /\ l_hashlabels = <<>>
    /\ l_hashtext = <<>>
    /\ l_pmns = <<>>
    /\ ld = NotLoading
    /\ call = NoCall
    /\ ihash = NoIhash
    /\ un = NoQueries

\* thread t calls pmGetInDomArchive: the entry and the first loop
EnterGetInDomArchive(t) ==
    /\ un[t].pc = "idle"
    /\ \E indom \in InDoms, hash \in IF t = 1 THEN { l_hashindom } ELSE OtherStores :
           \E b \in { pmGetInDomArchive_enter(hash, indom, ihash) } :
               /\ ihash' = b.ih
               /\ un' = [un EXCEPT ![t] = b.fr]
               /\ call' = IF b.fr.pc = "done"
                          THEN [op |-> "getindomarchive",
                                arg |-> [indom |-> indom, thread |-> t],
                                sts |-> b.fr.sts, ret |-> b.fr]
                          ELSE call
    /\ UNCHANGED <<l_hashindom, l_hashpmid, l_hashlabels, l_hashtext, l_pmns, ld>>

\* thread t makes one pass of the inner loop
StepGetInDomArchive(t) ==
    /\ un[t].pc = "loop"
    /\ \E ub \in OutOfBounds :
           \E b \in { pmGetInDomArchive_inst(un[t], ihash, ub) } :
               /\ ihash' = b.ih
               /\ un' = [un EXCEPT ![t] = b.fr]
    /\ UNCHANGED <<l_hashindom, l_hashpmid, l_hashlabels, l_hashtext, l_pmns, ld,
                   call>>

\* thread t leaves the loops and returns
ReturnGetInDomArchive(t) ==
    /\ un[t].pc = "return"
    /\ un' = [un EXCEPT ![t] = pmGetInDomArchive_return(un[t])]
    /\ call' = [op |-> "getindomarchive",
                arg |-> [indom |-> 1, thread |-> t],
                sts |-> pmGetInDomArchive_return(un[t]).sts,
                ret |-> pmGetInDomArchive_return(un[t])]
    /\ UNCHANGED <<l_hashindom, l_hashpmid, l_hashlabels, l_hashtext, l_pmns, ld,
                   ihash>>

NextUnion2 ==
    \E t \in Threads :
        \/ EnterGetInDomArchive(t)
        \/ StepGetInDomArchive(t)
        \/ ReturnGetInDomArchive(t)

SpecUnion2 == InitUnion2 /\ [][NextUnion2]_vars

(***************************************************************************)
(* The indom store under its writer and the lookup by name.  The names of  *)
(* this specification are sequences of characters.                         *)
(***************************************************************************)
LookupArrays ==
    { [instlist |-> <<1, 2>>,
       namelist |-> << <<"a", "b", " ", "c">>, <<"a", "b">> >>],
      [instlist |-> <<1, 2>>,
       namelist |-> << <<"a", "b", " ", "c">>, <<"a", "b", " ", "d">> >>],
      [instlist |-> <<3>>,
       namelist |-> << <<"a", " ", "b">> >>] }

LookupNames ==
    { <<"a", "b">>, <<"a", "b", "c">>, <<"a">>, <<"a", "b", " ", "c">>, <<"x">> }

AddInDomForLookup ==
    AddInDomOf({ 1 }, Stamps, LookupArrays)

\* __pmLogLookupInDom
LookupInDom ==
    \E indom \in InDoms, tsp \in QueryStamps \cup { NULL }, name \in LookupNames :
        /\ call' = [op |-> "lookupindom",
                    arg |-> [indom |-> indom, stamp |-> tsp, name |-> name],
                    sts |-> pmLogLookupInDom(l_hashindom, indom, tsp, name),
                    ret |-> <<>>]
        /\ UNCHANGED <<l_hashindom, l_hashpmid, l_hashlabels, l_hashtext, l_pmns,
                       ld, ihash, un>>

NextLookup ==
    \/ AddInDomForLookup
    \/ LookupInDom

SpecLookup == Init /\ [][NextLookup]_vars

(***************************************************************************)
(* The descriptor store.                                                   *)
(***************************************************************************)
Count == [dimSpace |-> 0, dimTime |-> 0, dimCount |-> 1,
          scaleSpace |-> 0, scaleTime |-> 0, scaleCount |-> 0]
Kbyte == [dimSpace |-> 1, dimTime |-> 0, dimCount |-> 0,
          scaleSpace |-> 1, scaleTime |-> 0, scaleCount |-> 0]
Mbyte == [dimSpace |-> 1, dimTime |-> 0, dimCount |-> 0,
          scaleSpace |-> 2, scaleTime |-> 0, scaleCount |-> 0]

PMIDs == { 1, 2 }

Descs ==
    { [pmid |-> 1, type |-> 0, sem |-> 0, indom |-> 0, units |-> Count],
      [pmid |-> 1, type |-> 1, sem |-> 1, indom |-> 0, units |-> Count],
      [pmid |-> 1, type |-> 0, sem |-> 1, indom |-> 1, units |-> Count],
      [pmid |-> 1, type |-> 0, sem |-> 0, indom |-> 1, units |-> Kbyte],
      [pmid |-> 1, type |-> 0, sem |-> 0, indom |-> 0, units |-> Kbyte],
      [pmid |-> 1, type |-> 0, sem |-> 0, indom |-> 0, units |-> Mbyte],
      [pmid |-> 2, type |-> 0, sem |-> 0, indom |-> 0, units |-> Count],
      [pmid |-> 2, type |-> 1, sem |-> 0, indom |-> 0, units |-> Count] }

\* __pmLogAddDesc
AddDesc ==
    \E newdp \in Descs :
        LET r == pmLogAddDesc(l_hashpmid, newdp)
        IN  /\ Len(r.hash) <= MaxDescs
            /\ l_hashpmid' = r.hash
            /\ call' = [op |-> "adddesc", arg |-> newdp, sts |-> r.sts, ret |-> <<>>]
            /\ UNCHANGED <<l_hashindom, l_hashlabels, l_hashtext, l_pmns, ld, ihash, un>>

\* __pmLogPutDesc
PutDesc ==
    \E dp \in Descs, written \in BOOLEAN :
        LET r == pmLogPutDesc(l_hashpmid, dp, written)
        IN  /\ Len(r.hash) <= MaxDescs
            /\ l_hashpmid' = r.hash
            /\ call' = [op |-> "putdesc", arg |-> dp, sts |-> r.sts, ret |-> <<>>]
            /\ UNCHANGED <<l_hashindom, l_hashlabels, l_hashtext, l_pmns, ld, ihash, un>>

\* __pmLogLookupDesc
LookupDesc ==
    \E pmid \in PMIDs :
        LET r == pmLogLookupDesc(l_hashpmid, pmid)
        IN  /\ call' = [op |-> "lookupdesc", arg |-> pmid, sts |-> r.sts, ret |-> r.dp]
            /\ UNCHANGED <<l_hashindom, l_hashpmid, l_hashlabels, l_hashtext, l_pmns, ld, ihash, un>>

NextDesc ==
    \/ AddDesc
    \/ PutDesc
    \/ LookupDesc

SpecDesc == Init /\ [][NextDesc]_vars

(***************************************************************************)
(* The label store.                                                        *)
(***************************************************************************)
LabelStamps ==
    { [sec |-> 1, nsec |-> 2], [sec |-> 2, nsec |-> 1] }

SetA == [inst |-> 1, nlabels |-> 1, labels |-> <<[name |-> "x", value |-> "1"]>>]
SetB == [inst |-> 1, nlabels |-> 1, labels |-> <<[name |-> "y", value |-> "2"]>>]

\* the label sets a caller passes; none at all for nsets = 0
LabelSetArrays ==
    { <<>>, <<SetA>>, <<SetB>>, <<SetA, SetB>> }

\* (type, ident) as passed
LabelKeys ==
    { [type |-> PM_LABEL_ITEM, ident |-> 1],
      [type |-> PM_LABEL_ITEM + PM_LABEL_OPTIONAL, ident |-> 1],
      [type |-> PM_LABEL_CONTEXT, ident |-> 2] }

\* the label sets held by the groups of a chain, from group i on
RECURSIVE SumSets(_, _)
SumSets(chain, i) ==
    IF i > Len(chain) THEN 0 ELSE chain[i].nsets + SumSets(chain, i + 1)

RECURSIVE SumGroups(_, _)
SumGroups(hashlabels, t) ==
    IF t > Len(hashlabels) THEN 0
    ELSE SumLen(hashlabels[t].data, 1) + SumGroups(hashlabels, t + 1)

\* __pmLogAddLabelSets, the key drawn from keys and the sets from arrays
AddLabelSetsFrom(keys, arrays) ==
    \E k \in keys, tsp \in LabelStamps, labelsets \in arrays :
        LET r == addlabel(l_hashlabels, k.type, k.ident, Len(labelsets), labelsets, tsp)
        IN  /\ SumGroups(r.hash, 1) <= MaxGroups
            /\ l_hashlabels' = r.hash
            /\ call' = [op |-> "addlabel",
                        arg |-> [type |-> k.type, ident |-> k.ident, stamp |-> tsp,
                                 nsets |-> Len(labelsets), labelsets |-> labelsets],
                        sts |-> r.sts, ret |-> <<>>]
            /\ UNCHANGED <<l_hashindom, l_hashpmid, l_hashtext, l_pmns, ld, ihash, un>>

AddLabelSets ==
    AddLabelSetsFrom(LabelKeys, LabelSetArrays)

\* all the groups of l_hashlabels, chain after chain
RECURSIVE AllGroups(_, _, _)
AllGroups(hashlabels, t, n) ==
    IF t > Len(hashlabels) THEN <<>>
    ELSE IF n > Len(hashlabels[t].data) THEN AllGroups(hashlabels, t + 1, 1)
    ELSE hashlabels[t].data[n].data \o AllGroups(hashlabels, t, n + 1)

\* check_dup_labels, as run at the end of __pmLogLoadMeta; the call records
\* how many groups it unlinked and how many label sets it discarded
CheckDupLabels ==
    /\ l_hashlabels' = check_dup_labels(l_hashlabels)
    /\ call' = [op |-> "check_dup_labels", arg |-> <<>>, sts |-> 0,
                ret |-> [unlinked  |-> SumGroups(l_hashlabels, 1)
                                       - SumGroups(check_dup_labels(l_hashlabels), 1),
                         discarded |-> SumSets(AllGroups(l_hashlabels, 1, 1), 1)
                                       - SumSets(AllGroups(check_dup_labels(l_hashlabels), 1, 1), 1)]]
    /\ UNCHANGED <<l_hashindom, l_hashpmid, l_hashtext, l_pmns, ld, ihash, un>>

NextLabel ==
    \/ AddLabelSets
    \/ CheckDupLabels

SpecLabel == Init /\ [][NextLabel]_vars

\* (type, ident) as passed, with and without the flag bits, and the context
\* labels under two identifiers
LabelKeyVariants ==
    { [type |-> PM_LABEL_ITEM, ident |-> 1],
      [type |-> PM_LABEL_ITEM + PM_LABEL_OPTIONAL, ident |-> 1],
      [type |-> PM_LABEL_ITEM + PM_LABEL_COMPOUND + PM_LABEL_OPTIONAL, ident |-> 1],
      [type |-> PM_LABEL_CONTEXT, ident |-> 1],
      [type |-> PM_LABEL_CONTEXT, ident |-> 2] }

AddLabelSetsForKeys ==
    AddLabelSetsFrom(LabelKeyVariants, { <<>>, <<SetA>> })

\* __pmLogLookupLabel
LookupLabel ==
    \E k \in LabelKeyVariants, tsp \in { <<t>> : t \in LabelStamps } \cup { NULL } :
        LET r == pmLogLookupLabel(l_hashlabels, k.type, k.ident, tsp)
        IN  /\ call' = [op |-> "lookuplabel",
                        arg |-> [type |-> k.type, ident |-> k.ident, stamp |-> tsp],
                        sts |-> r.sts, ret |-> r.label]
            /\ UNCHANGED <<l_hashindom, l_hashpmid, l_hashlabels, l_hashtext, l_pmns, ld, ihash, un>>

\* the label store under its writer and its query, over the variants of a key
NextLabelKey ==
    \/ AddLabelSetsForKeys
    \/ LookupLabel

SpecLabelKey == Init /\ [][NextLabelKey]_vars

(***************************************************************************)
(* samelabelset over pairs of label sets, repeated label names included.   *)
(***************************************************************************)
MaxLabels == 2

LabelsOf ==
    { [name |-> n, value |-> v] : n \in { "x", "y" }, v \in { "1", "2" } }

\* the label sets of at most MaxLabels labels, for the instances 1 and 2
LabelSetsOf ==
    { [inst |-> i, nlabels |-> Len(ls), labels |-> ls] :
        i \in { 1, 2 },
        ls \in UNION { [1..k -> LabelsOf] : k \in 0..MaxLabels } }

\* no call yet, the two sets at hand
InitSameLabelSet ==
    /\ l_hashindom = <<>>
    /\ l_hashpmid = <<>>
    /\ l_hashlabels = <<>>
    /\ l_hashtext = <<>>
    /\ l_pmns = <<>>
    /\ ld = NotLoading
    /\ ihash = NoIhash
    /\ un = NoQueries
    /\ \E set1 \in LabelSetsOf, set2 \in LabelSetsOf :
          call = [op |-> "none", arg |-> [set1 |-> set1, set2 |-> set2],
                  sts |-> 0, ret |-> <<>>]

\* samelabelset(set1, set2), and samelabelset(set2, set1) in ret
SameLabelSet ==
    /\ call.op = "none"
    /\ call' = [call EXCEPT
                  !.op = "samelabelset",
                  !.sts = IF samelabelset(call.arg.set1, call.arg.set2) THEN 1 ELSE 0,
                  !.ret = IF samelabelset(call.arg.set2, call.arg.set1) THEN 1 ELSE 0]
    /\ UNCHANGED <<l_hashindom, l_hashpmid, l_hashlabels, l_hashtext, l_pmns, ld, ihash, un>>

NextSameLabelSet ==
    SameLabelSet

SpecSameLabelSet == InitSameLabelSet /\ [][NextSameLabelSet]_vars

(***************************************************************************)
(* addinsts over instance arrays in any order, ids repeated or not.        *)
(***************************************************************************)
MaxInsts == 3

\* the arrays of at most MaxInsts instances: ids below and above zero, the
\* name of an instance telling where it stood in the caller's arrays
SortArrays ==
    { [instlist |-> il, namelist |-> [k \in 1..Len(il) |-> ToString(k)]] :
        il \in UNION { [1..n -> { -1, 1, 2, 3 }] : n \in 0..MaxInsts } }

\* no call yet, the caller's arrays at hand
InitSort ==
    /\ l_hashindom = <<>>
    /\ l_hashpmid = <<>>
    /\ l_hashlabels = <<>>
    /\ l_hashtext = <<>>
    /\ l_pmns = <<>>
    /\ ld = NotLoading
    /\ ihash = NoIhash
    /\ un = NoQueries
    /\ \E in \in SortArrays :
          call = [op |-> "none", arg |-> in, sts |-> 0, ret |-> <<>>]

\* addinsts(idp, numinst, instlist, namelist): ret is what idp holds afterwards
AddInsts ==
    /\ call.op = "none"
    /\ call' = [call EXCEPT
                  !.op = "addinsts",
                  !.ret = addinsts(Len(call.arg.instlist), call.arg.instlist,
                                   call.arg.namelist)]
    /\ UNCHANGED <<l_hashindom, l_hashpmid, l_hashlabels, l_hashtext, l_pmns, ld, ihash, un>>

NextSort ==
    AddInsts

SpecSort == InitSort /\ [][NextSort]_vars

(***************************************************************************)
(* A sequence of __pmLogAddInDom calls applied to a catalog and then       *)
(* applied again, as when the archives of a multi-archive context repeat   *)
(* their instance domains.  call.ret holds the calls of the first pass     *)
(* (S), how many of them the second pass has repeated (k) and the indom    *)
(* store the first pass left (first).                                      *)
(***************************************************************************)
ReplayStamps ==
    { [sec |-> 1, nsec |-> 2], [sec |-> 2, nsec |-> 1] }

\* the catalogs the first pass starts from: empty, or a chain with a time
\* slot of two snapshots
ReplayStores ==
    { <<>>,
      addindom(addindom(<<>>, 1, [sec |-> 1, nsec |-> 2], 1, <<1>>, <<"a">>).hash,
               1, [sec |-> 1, nsec |-> 2], 2, <<1, 1>>, <<"a", "b">>).hash }

InitReplay ==
    /\ l_hashindom \in ReplayStores
    /\ l_hashpmid = <<>>
    /\ l_hashlabels = <<>>
    /\ l_hashtext = <<>>
    /\ l_pmns = <<>>
    /\ ld = NotLoading
    /\ call = [NoCall EXCEPT !.ret = [S |-> <<>>, k |-> 0, first |-> <<>>]]
    /\ ihash = NoIhash
    /\ un = NoQueries

\* a call of the first pass
AddInDomFirst ==
    /\ call.ret.k = 0
    /\ Len(call.ret.S) < MaxSnapshots
    /\ \E tsp \in ReplayStamps, in \in InstArrays :
         \E r \in { addindom(l_hashindom, 1, tsp, Len(in.instlist),
                             in.instlist, in.namelist) } :
            /\ l_hashindom' = r.hash
            /\ call' = [op |-> "addindom",
                        arg |-> [indom |-> 1, stamp |-> tsp,
                                 numinst |-> Len(in.instlist),
                                 instlist |-> in.instlist, namelist |-> in.namelist],
                        sts |-> r.sts,
                        ret |-> [call.ret EXCEPT
                                   !.S = Append(@, [stamp |-> tsp, in |-> in])]]
    /\ UNCHANGED <<l_hashpmid, l_hashlabels, l_hashtext, l_pmns, ld, ihash, un>>

\* the next call of the second pass: call k + 1 of S again
AddInDomAgain ==
    /\ call.ret.k < Len(call.ret.S)
    /\ \E c \in { call.ret.S[call.ret.k + 1] } :
         \E r \in { addindom(l_hashindom, 1, c.stamp, Len(c.in.instlist),
                             c.in.instlist, c.in.namelist) } :
            /\ l_hashindom' = r.hash
            /\ call' = [op |-> "addindom again",
                        arg |-> [indom |-> 1, stamp |-> c.stamp,
                                 numinst |-> Len(c.in.instlist),
                                 instlist |-> c.in.instlist,
                                 namelist |-> c.in.namelist],
                        sts |-> r.sts,
                        ret |-> [call.ret EXCEPT
                                   !.k = @ + 1,
                                   !.first = IF call.ret.k = 0 THEN l_hashindom
                                             ELSE @]]
    /\ UNCHANGED <<l_hashpmid, l_hashlabels, l_hashtext, l_pmns, ld, ihash, un>>

NextReplay ==
    \/ AddInDomFirst
    \/ AddInDomAgain

SpecReplay == InitReplay /\ [][NextReplay]_vars

(***************************************************************************)
(* The text store.                                                         *)
(***************************************************************************)
TextTypes ==
    { PM_TEXT_ONELINE + PM_TEXT_PMID,
      PM_TEXT_HELP + PM_TEXT_PMID,
      PM_TEXT_ONELINE + PM_TEXT_PMID + PM_TEXT_DIRECT }

TextIdents == { 1, 2 }

Texts == { "old", "new" }

\* an assert() of an earlier call ended the process
Aborted ==
    call.ret = <<"abort">>

\* __pmLogAddText
AddText ==
    /\ ~Aborted
    /\ \E ident \in TextIdents, type \in TextTypes, buffer \in Texts :
          LET r == addtext(l_hashtext, ident, type, buffer)
          IN  /\ SumLen(r.hash, 1) <= MaxTexts
              /\ l_hashtext' = r.hash
              /\ call' = [op |-> "addtext",
                          arg |-> [ident |-> ident, type |-> type, buffer |-> buffer],
                          sts |-> r.sts,
                          ret |-> IF r.abort THEN <<"abort">> ELSE <<>>]
              /\ UNCHANGED <<l_hashindom, l_hashpmid, l_hashlabels, l_pmns, ld, ihash, un>>

\* __pmLogLookupText
LookupText ==
    /\ ~Aborted
    /\ \E ident \in TextIdents, type \in TextTypes :
          LET r == pmLogLookupText(l_hashtext, ident, type)
          IN  /\ call' = [op |-> "lookuptext",
                          arg |-> [ident |-> ident, type |-> type],
                          sts |-> r.sts, ret |-> r.buffer]
              /\ UNCHANGED <<l_hashindom, l_hashpmid, l_hashlabels, l_hashtext, l_pmns, ld, ihash, un>>

NextText ==
    \/ AddText
    \/ LookupText

SpecText == Init /\ [][NextText]_vars

(***************************************************************************)
(* The three stores under the writers that also write the metadata file.   *)
(***************************************************************************)
\* __pmLogPutDesc for the writers' specification
PutDescWritten ==
    /\ ~Aborted
    /\ \E dp \in { d \in Descs : d.type = 0 /\ d.sem = 0 /\ d.indom = 0 /\ d.units = Count },
          written \in BOOLEAN :
          LET r == pmLogPutDesc(l_hashpmid, dp, written)
          IN  /\ Len(r.hash) <= MaxDescs
              /\ l_hashpmid' = r.hash
              /\ call' = [op |-> "putdesc", arg |-> [dp |-> dp, written |-> written],
                          sts |-> r.sts, ret |-> <<>>]
              /\ UNCHANGED <<l_hashindom, l_hashlabels, l_hashtext, l_pmns, ld,
                             ihash, un>>

\* __pmLogPutLabel
PutLabel ==
    /\ ~Aborted
    /\ \E tsp \in LabelStamps, labelsets \in { <<SetA>>, <<SetB>> },
          written \in BOOLEAN :
          LET r == pmLogPutLabel(l_hashlabels, PM_LABEL_ITEM, 1, Len(labelsets),
                                 labelsets, tsp, written)
          IN  /\ SumGroups(r.hash, 1) <= MaxGroups
              /\ l_hashlabels' = r.hash
              /\ call' = [op |-> "putlabel",
                          arg |-> [type |-> PM_LABEL_ITEM, ident |-> 1, stamp |-> tsp,
                                   nsets |-> Len(labelsets), labelsets |-> labelsets,
                                   written |-> written],
                          sts |-> r.sts, ret |-> <<>>]
              /\ UNCHANGED <<l_hashindom, l_hashpmid, l_hashtext, l_pmns, ld,
                             ihash, un>>

\* __pmLogPutText
PutText ==
    /\ ~Aborted
    /\ \E type \in { PM_TEXT_ONELINE + PM_TEXT_PMID },
          buffer \in Texts, cached \in { 0, 1 }, written \in BOOLEAN :
          LET r == pmLogPutText(l_hashtext, 1, type, buffer, cached, written)
          IN  /\ SumLen(r.hash, 1) <= MaxTexts
              /\ l_hashtext' = r.hash
              /\ call' = [op |-> "puttext",
                          arg |-> [ident |-> 1, type |-> type, buffer |-> buffer,
                                   cached |-> cached, written |-> written],
                          sts |-> r.sts,
                          ret |-> IF r.abort THEN <<"abort">> ELSE <<>>]
              /\ UNCHANGED <<l_hashindom, l_hashpmid, l_hashlabels, l_pmns, ld,
                             ihash, un>>

NextPut ==
    \/ PutDescWritten
    \/ PutLabel
    \/ PutText

SpecPut == Init /\ [][NextPut]_vars

(***************************************************************************)
(* The metadata file.  It is the sequence of its 32-bit words, each cell   *)
(* holding the number its four bytes spell in network order; positions and *)
(* lengths are in bytes.  The strings of the model fill whole words.       *)
(***************************************************************************)
\* the word at byte offset pos
Word(f, pos) ==
    f[(pos \div 4) + 1]

\* the words of the n bytes at pos
Words(f, pos, n) ==
    SubSeq(f, (pos \div 4) + 1, (pos + n) \div 4)

\* __pmFread of n bytes at pos: the number of bytes read
Fread(f, pos, n) ==
    LET left == IF 4 * Len(f) > pos THEN 4 * Len(f) - pos ELSE 0
    IN  IF n <= left THEN n ELSE left

\* __pmFseek(f, off, SEEK_CUR): the position afterwards; a seek to before
\* the start of the file fails and leaves the position
Fseek(pos, off) ==
    IF pos + off < 0 THEN pos ELSE pos + off

\* __ntohpmUnits: the unit fields a word spells
ntohpmUnits(w) ==
    IF w = 1 THEN Kbyte
    ELSE IF w = 2 THEN Mbyte
    ELSE [dimSpace |-> 0, dimTime |-> 0, dimCount |-> 1,
          scaleSpace |-> 0, scaleTime |-> 0, scaleCount |-> w]

\* the NUL-terminated string that starts with the bytes of a word
TextOfWord(w) ==
    IF w = 101 THEN "old" ELSE IF w = 102 THEN "new" ELSE ""

\* the same, for the words instance names are written with
NameOfWord(w) ==
    IF w = 97 THEN "a" ELSE IF w = 98 THEN "b" ELSE ""

\* the bytes of a label set's json that a pmLabel's name word (offset,
\* length, flags) or value word (offset, length) selects
JsonRange(json, w) ==
    IF json = <<1>> /\ w = 11 THEN "x"
    ELSE IF json = <<1>> /\ w = 12 THEN "1"
    ELSE IF json = <<2>> /\ w = 11 THEN "y"
    ELSE IF json = <<2>> /\ w = 12 THEN "2"
    ELSE ""

\* a 64-bit number from its two words
Int64(hi, lo) ==
    IF hi = 0 THEN lo ELSE hi * 65536 * 65536 + lo

\* __pmLogLoadTimestamp
pmLogLoadTimestamp(f, pos) ==
    [sec |-> Int64(Word(f, pos), Word(f, pos + 4)), nsec |-> Word(f, pos + 8)]

(***************************************************************************)
(* Timestamps in a buffer.  A buffer is the sequence of its bytes; a       *)
(* 32-bit value is an integer, and a 64-bit value is the sequence of the   *)
(* eight bytes of its two's complement, most significant first.            *)
(***************************************************************************)
\* the four bytes of a 32-bit value, most significant first
Bytes32(w) ==
    <<(w \div 16777216) % 256, (w \div 65536) % 256, (w \div 256) % 256, w % 256>>

\* the signed 32-bit value four bytes spell, most significant first
Int32(b) ==
    (IF b[1] >= 128 THEN b[1] - 256 ELSE b[1]) * 16777216
    + b[2] * 65536 + b[3] * 256 + b[4]

Reverse(b) ==
    [i \in 1..Len(b) |-> b[Len(b) + 1 - i]]

\* the 64-bit value with the 32-bit halves hi and lo
Sec64(hi, lo) ==
    Bytes32(hi) \o Bytes32(lo)

\* (__int32_t)sec
Trunc32(sec) ==
    Int32(SubSeq(sec, 5, 8))

\* a uint32_t assigned to a 64-bit signed field
ZeroExt64(w) ==
    <<0, 0, 0, 0>> \o Bytes32(w)

\* a / b of C, rounding towards zero
DivTrunc(a, b) ==
    IF a >= 0 THEN a \div b ELSE -((-a) \div b)

\* (uint32_t)w * 1000 stored in an int: the product modulo 2^32
Mul1000(w) ==
    LET lo    == w % 65536
        hi    == (w \div 65536) % 65536
        rlo   == (lo * 1000) % 65536
        carry == (lo * 1000) \div 65536
        rhi   == (hi * 1000 + carry) % 65536
    IN  (IF rhi >= 32768 THEN rhi - 65536 ELSE rhi) * 65536 + rlo

\* htonl and ntohl between a value and the four bytes in a buffer
htonl(w) ==
    Bytes32(w)

ntohl(b) ==
    Int32(b)

\* the bytes a value has in the memory of the host
Mem(host, bytes) ==
    IF host = "little" THEN Reverse(bytes) ELSE bytes

\* __htonpmTimestamp and __ntohpmTimestamp: both swap the bytes of sec and
\* of nsec on a little-endian host and do nothing on a big-endian one
htonpmTimestamp(host, tsp) ==
    IF host = "little"
    THEN [sec |-> Reverse(tsp.sec), nsec |-> Int32(Reverse(Bytes32(tsp.nsec)))]
    ELSE tsp

ntohpmTimestamp(host, tsp) ==
    htonpmTimestamp(host, tsp)

pmLogLoadTimeval_buf_usec(buf) ==
    [sec  |-> ZeroExt64(ntohl(SubSeq(buf, 1, 4))),
     nsec |-> ntohl(SubSeq(buf, 5, 8))]

\* __pmLogLoadTimeval (the LABEL_V2 branch of the loader reads its stamp
\* the same way)
pmLogLoadTimeval_buf(buf) ==
    [sec  |-> ZeroExt64(ntohl(SubSeq(buf, 1, 4))),
     nsec |-> Mul1000(ntohl(SubSeq(buf, 5, 8)))]

\* __pmLogPutTimeval (__pmLogPutLabels writes its V2 stamp the same way)
pmLogPutTimeval(tsp) ==
    htonl(Trunc32(tsp.sec)) \o htonl(DivTrunc(tsp.nsec, 1000))

\* __pmLogLoadTimestamp
pmLogLoadTimestamp_buf(host, buf) ==
    ntohpmTimestamp(host,
        [sec  |-> Mem(host, SubSeq(buf, 1, 8)),
         nsec |-> Int32(Mem(host, SubSeq(buf, 9, 12)))])

\* __pmLogPutTimestamp: stamp is the copy it swaps, tsp what it copies from
pmLogPutTimestamp(host, tsp) ==
    LET stamp == htonpmTimestamp(host, tsp)
    IN  Mem(host, tsp.sec) \o Mem(host, Bytes32(tsp.nsec))

\* a 64-bit second count as a number of the model; the files of the model
\* hold none outside 32 bits
IntOf64(sec) ==
    IF SubSeq(sec, 1, 4) = <<0, 0, 0, 0>> /\ sec[5] < 128 THEN Int32(SubSeq(sec, 5, 8))
    ELSE IF SubSeq(sec, 1, 4) = <<255, 255, 255, 255>> /\ sec[5] >= 128
    THEN Int32(SubSeq(sec, 5, 8))
    ELSE IF sec[1] < 128 THEN 2147483647 ELSE -2147483647

\* __pmLogLoadTimeval on the eight bytes at pos of the file
pmLogLoadTimeval(f, pos) ==
    [sec  |-> IntOf64(pmLogLoadTimeval_buf(
                 Bytes32(Word(f, pos)) \o Bytes32(Word(f, pos + 4))).sec),
     nsec |-> pmLogLoadTimeval_buf(
                 Bytes32(Word(f, pos)) \o Bytes32(Word(f, pos + 4))).nsec]

(***************************************************************************)
(* __pmLogLoadMeta.  The catalog is passed as cat = [indom, pmid, labels,  *)
(* text]; a branch returns what it leaves behind and where control goes:   *)
(* "trailer" (on to the trailer check), "continue" (next iteration),       *)
(* "end" (goto end), "abort" (a failed assert) or "undefined" (a read      *)
(* outside the record's buffer).                                           *)
(***************************************************************************)
Branch(cat, pos, numpmid, sts, go) ==
    [cat |-> cat, pos |-> pos, numpmid |-> numpmid, sts |-> sts, go |-> go]

pmLogLoadMeta_rlen_nohdr(hlen) ==
    hlen - 4

\* rlen = h.len - sizeof(__pmLogHdr) - sizeof(int)
pmLogLoadMeta_rlen(hlen) ==
    hlen - 8 - 4

\* the NUL-terminated name that len bytes read into name[] spell: a word
\* below 2^24 starts with a NUL byte
NameOfBytes(ws) ==
    IF ws = <<>> THEN ""
    ELSE IF ws[1] >= 0 /\ ws[1] < 16777216 THEN ""
    ELSE IF ws = <<1684632427>> THEN "disk"
    ELSE IF ws = <<1801810542>> THEN "kern"
    ELSE IF ws = <<2019980132>> THEN "xfsd"
    ELSE "?"

\* __pmAddPMNSNode: PM_ERR_PMID when the name is held for another pmid,
\* nothing new when it is held for this one
AddPMNSNode(pmns, pmid, name) ==
    IF \E n \in 1..Len(pmns) : pmns[n].name = name /\ pmns[n].pmid /= pmid
    THEN [sts |-> PM_ERR_PMID, pmns |-> pmns]
    ELSE IF \E n \in 1..Len(pmns) : pmns[n].name = name
    THEN [sts |-> 0, pmns |-> pmns]
    ELSE [sts |-> 0, pmns |-> Append(pmns, [pmid |-> pmid, name |-> name])]

\* __pmLogAddPMNSNode
pmLogAddPMNSNode(pmns, pmid, name) ==
    [sts  |-> IF AddPMNSNode(pmns, pmid, name).sts = PM_ERR_PMID THEN 0
              ELSE AddPMNSNode(pmns, pmid, name).sts,
     pmns |-> AddPMNSNode(pmns, pmid, name).pmns]

\* the loop over the names of a DESC record: [pos, sts, pmns], the position
\* after the last read, the status and the name space afterwards
RECURSIVE pmLogLoadMeta_names(_, _, _, _, _, _)
pmLogLoadMeta_names(f, pos, i, numnames, pmid, pmns) ==
    IF i >= numnames THEN [pos |-> pos, sts |-> 0, pmns |-> pmns]
    ELSE IF Fread(f, pos, 4) /= 4
    THEN [pos |-> pos + Fread(f, pos, 4), sts |-> PM_ERR_LOGREC, pmns |-> pmns]
    ELSE IF Word(f, pos) < 0 \/ Fread(f, pos + 4, Word(f, pos)) /= Word(f, pos)
    THEN [pos |-> 4 * Len(f), sts |-> PM_ERR_LOGREC, pmns |-> pmns]
    ELSE pmLogLoadMeta_names(f, pos + 4 + Word(f, pos), i + 1, numnames, pmid,
            pmLogAddPMNSNode(pmns, pmid,
               NameOfBytes(Words(f, pos + 4, Word(f, pos)))).pmns)

\* the names of a DESC record and what follows them
pmLogLoadMeta_descnames(cat2, r, numpmid, sts, numnames) ==
    IF r.sts < 0
    THEN Branch([cat2 EXCEPT !.pmns = r.pmns], r.pos, numpmid, r.sts, "end")
    ELSE Branch([cat2 EXCEPT !.pmns = r.pmns], r.pos, numpmid,
                IF numnames > 0 THEN r.sts ELSE sts, "trailer")

\* the TYPE_DESC branch
pmLogLoadMeta_desc(cat, f, pos, numpmid) ==
    IF Fread(f, pos, 20) /= 20
    THEN Branch(cat, pos + Fread(f, pos, 20), numpmid + 1, PM_ERR_LOGREC, "end")
    ELSE
      LET desc == [pmid  |-> Word(f, pos),     type |-> Word(f, pos + 4),
                   indom |-> Word(f, pos + 8), sem  |-> Word(f, pos + 12),
                   units |-> ntohpmUnits(Word(f, pos + 16))]
          r    == pmLogAddDesc(cat.pmid, desc)
          cat2 == [cat EXCEPT !.pmid = r.hash]
      IN  IF r.sts < 0 THEN Branch(cat, pos + 20, numpmid + 1, r.sts, "end")
          ELSE IF Fread(f, pos + 20, 4) /= 4
          THEN Branch(cat2, pos + 20 + Fread(f, pos + 20, 4), numpmid + 1,
                      PM_ERR_LOGREC, "end")
          ELSE pmLogLoadMeta_descnames(cat2,
                  pmLogLoadMeta_names(f, pos + 24, 0, Word(f, pos + 20),
                                      Word(f, pos), cat.pmns),
                  numpmid + 1, r.sts, Word(f, pos + 20))

\* __pmLogLoadInDom: [sts, stamp, indom, numinst, instlist, namelist] from
\* the rlen bytes at pos; the strings are found through the index array that
\* follows the instance ids
pmLogLoadInDom(f, pos, rlen, htype) ==
    LET k    == IF htype = TYPE_INDOM_V2 THEN 8 ELSE 12
        bad  == [sts |-> PM_ERR_LOGREC, stamp |-> <<>>, indom |-> 0, numinst |-> 0,
                 instlist |-> <<>>, namelist |-> <<>>]
    IN  IF rlen < k + 8 \/ Fread(f, pos, rlen) /= rlen THEN bad
        ELSE
          LET stamp   == IF htype = TYPE_INDOM_V2 THEN pmLogLoadTimeval(f, pos)
                         ELSE pmLogLoadTimestamp(f, pos)
              indom   == Word(f, pos + k)
              numinst == Word(f, pos + k + 4)
              base    == pos + k + 8
              strs    == base + 8 * numinst
          IN  IF numinst <= 0
              THEN [sts |-> 1, stamp |-> stamp, indom |-> indom, numinst |-> numinst,
                    instlist |-> <<>>, namelist |-> <<>>]
              ELSE IF \/ k + 8 + 8 * numinst > rlen
                      \/ \E i \in 0..(numinst - 1) :
                            LET idx == Word(f, base + 4 * numinst + 4 * i)
                            IN  idx < 0 \/ idx % 4 /= 0 \/ strs + idx + 4 > pos + rlen
              THEN bad
              ELSE [sts |-> 1, stamp |-> stamp, indom |-> indom, numinst |-> numinst,
                    instlist |-> [i \in 1..numinst |-> Word(f, base + 4 * (i - 1))],
                    namelist |-> [i \in 1..numinst |->
                                    NameOfWord(Word(f, strs +
                                       Word(f, base + 4 * numinst + 4 * (i - 1))))]]

\* the TYPE_INDOM and TYPE_INDOM_V2 branch
pmLogLoadMeta_indom(cat, f, pos, numpmid, rlen, htype) ==
    LET in == pmLogLoadInDom(f, pos, rlen, htype)
    IN  IF in.sts < 0 THEN Branch(cat, pos, numpmid, in.sts, "end")
        ELSE IF in.numinst > 0
        THEN LET r == addindom(cat.indom, in.indom, in.stamp, in.numinst,
                               in.instlist, in.namelist)
             IN  IF r.sts < 0 THEN Branch(cat, pos + rlen, numpmid, r.sts, "end")
                 ELSE Branch([cat EXCEPT !.indom = r.hash], pos + rlen, numpmid,
                             r.sts, "trailer")
        ELSE Branch(cat, pos + rlen, numpmid, 0, "trailer")

pmLogLoadMeta_jsonlen_bad_max(jsonlen) ==
    jsonlen > PM_MAXLABELJSONLEN

\* the check of a set's jsonlen
pmLogLoadMeta_jsonlen_bad(jsonlen) ==
    jsonlen < 0 \/ jsonlen > PM_MAXLABELJSONLEN

\* the check of a set's nlabels > 0, k being the cursor after nlabels
pmLogLoadMeta_nlabels_bad(nlabels, k, rlen) ==
    nlabels > PM_MAXLABELS \/ k + nlabels * 8 > rlen

\* the loop over the label sets of a LABEL record, k bytes into the buffer
\* of rlen bytes at base: [go, sts, labelsets]
RECURSIVE pmLogLoadMeta_labelsets(_, _, _, _, _, _, _)
pmLogLoadMeta_labelsets(f, base, rlen, k, i, nsets, labelsets) ==
    IF i >= nsets THEN [go |-> "trailer", sts |-> 0, labelsets |-> labelsets]
    ELSE IF k + 8 > rlen THEN [go |-> "undefined", sts |-> 0, labelsets |-> labelsets]
    ELSE
      LET inst    == Word(f, base + k)
          jsonlen == Word(f, base + k + 4)
      IN  IF pmLogLoadMeta_jsonlen_bad(jsonlen)
          THEN [go |-> "end", sts |-> PM_ERR_LOGREC, labelsets |-> labelsets]
          ELSE IF jsonlen % 4 /= 0
          THEN [go |-> "unaligned", sts |-> 0, labelsets |-> labelsets]
          ELSE IF k + 8 + jsonlen + 4 > rlen
          THEN [go |-> "undefined", sts |-> 0, labelsets |-> labelsets]
          ELSE
            LET json    == Words(f, base + k + 8, jsonlen)
                k2      == k + 8 + jsonlen + 4
                nlabels == Word(f, base + k2 - 4)
            IN  IF nlabels > 0
                THEN IF pmLogLoadMeta_nlabels_bad(nlabels, k2, rlen)
                     THEN [go |-> "end", sts |-> PM_ERR_LOGREC, labelsets |-> labelsets]
                     ELSE pmLogLoadMeta_labelsets(f, base, rlen, k2 + nlabels * 8,
                            i + 1, nsets,
                            Append(labelsets,
                              [inst |-> inst, nlabels |-> nlabels,
                               labels |-> [j \in 1..nlabels |->
                                  [name  |-> JsonRange(json, Word(f, base + k2 + 8 * (j - 1))),
                                   value |-> JsonRange(json, Word(f, base + k2 + 8 * (j - 1) + 4))]]]))
                ELSE pmLogLoadMeta_labelsets(f, base, rlen, k2, i + 1, nsets,
                       Append(labelsets,
                              [inst |-> inst, nlabels |-> nlabels, labels |-> <<>>]))

\* the TYPE_LABEL and TYPE_LABEL_V2 branch
pmLogLoadMeta_label(cat, f, pos, numpmid, rlen, htype) ==
    LET k == IF htype = TYPE_LABEL_V2 THEN 8 ELSE 12
    IN  IF rlen < 0 THEN Branch(cat, pos, numpmid, ENOMEM, "end")
        ELSE IF Fread(f, pos, rlen) /= rlen
        THEN Branch(cat, pos + Fread(f, pos, rlen), numpmid, PM_ERR_LOGREC, "end")
        ELSE IF rlen < k + 12 THEN Branch(cat, pos + rlen, numpmid, 0, "undefined")
        ELSE
          LET stamp == IF htype = TYPE_LABEL_V2 THEN pmLogLoadTimeval(f, pos)
                       ELSE pmLogLoadTimestamp(f, pos)
              type  == Word(f, pos + k)
              ident == Word(f, pos + k + 4)
              nsets == Word(f, pos + k + 8)
              sets  == pmLogLoadMeta_labelsets(f, pos, rlen, k + 12, 0, nsets, <<>>)
          IN  IF sets.go /= "trailer"
              THEN Branch(cat, pos + rlen, numpmid, sets.sts, sets.go)
              ELSE LET r == addlabel(cat.labels, type, ident, nsets,
                                     sets.labelsets, stamp)
                   IN  IF r.sts < 0
                       THEN Branch(cat, pos + rlen, numpmid, r.sts, "end")
                       ELSE Branch([cat EXCEPT !.labels = r.hash], pos + rlen,
                                   numpmid, r.sts, "trailer")

\* the TYPE_TEXT branch
pmLogLoadMeta_text(cat, f, pos, numpmid, rlen) ==
    IF rlen < 0 THEN Branch(cat, pos, numpmid, ENOMEM, "end")
    ELSE IF Fread(f, pos, rlen) /= rlen
    THEN Branch(cat, pos + Fread(f, pos, rlen), numpmid, PM_ERR_LOGREC, "end")
    ELSE IF rlen < 4 THEN Branch(cat, pos + rlen, numpmid, 0, "undefined")
    ELSE
      LET type == Word(f, pos)
      IN  IF ~(Bit(type, PM_TEXT_ONELINE) \/ Bit(type, PM_TEXT_HELP))
          THEN Branch(cat, pos + rlen, numpmid, 0, "continue")
          ELSE IF ~(Bit(type, PM_TEXT_INDOM) \/ Bit(type, PM_TEXT_PMID))
          THEN Branch(cat, pos + rlen, numpmid, 0, "continue")
          ELSE IF rlen < 12 THEN Branch(cat, pos + rlen, numpmid, 0, "undefined")
          ELSE
            LET ident == Word(f, pos + 4)
                r     == addtext(cat.text, ident, type, TextOfWord(Word(f, pos + 8)))
            IN  IF r.abort THEN Branch(cat, pos + rlen, numpmid, r.sts, "abort")
                ELSE IF r.sts < 0
                THEN Branch([cat EXCEPT !.text = r.hash], pos + rlen, numpmid,
                            r.sts, "end")
                ELSE Branch([cat EXCEPT !.text = r.hash], pos + rlen, numpmid,
                            r.sts, "trailer")

\* the trailer check that follows a branch which fell through to it
pmLogLoadMeta_trailer(b, f, hlen) ==
    IF b.go /= "trailer" THEN b
    ELSE IF Fread(f, b.pos, 4) /= 4 \/ Word(f, b.pos) /= hlen
    THEN Branch(b.cat, b.pos + Fread(f, b.pos, 4), b.numpmid, PM_ERR_LOGREC, "end")
    ELSE Branch(b.cat, b.pos + 4, b.numpmid, b.sts, "continue")

\* the dispatch on h.type, pos being just after the header
pmLogLoadMeta_record(cat, f, pos, numpmid, hlen, htype) ==
    LET rlen == pmLogLoadMeta_rlen(hlen)
    IN  pmLogLoadMeta_trailer(
          IF htype = TYPE_DESC
          THEN pmLogLoadMeta_desc(cat, f, pos, numpmid)
          ELSE IF htype = TYPE_INDOM \/ htype = TYPE_INDOM_V2
          THEN pmLogLoadMeta_indom(cat, f, pos, numpmid, rlen, htype)
          ELSE IF htype = TYPE_LABEL \/ htype = TYPE_LABEL_V2
          THEN pmLogLoadMeta_label(cat, f, pos, numpmid, rlen, htype)
          ELSE IF htype = TYPE_TEXT
          THEN pmLogLoadMeta_text(cat, f, pos, numpmid, rlen)
          ELSE Branch(cat, Fseek(pos, rlen), numpmid, 0, "trailer"),
          f, hlen)

\* one iteration of the for loop of __pmLogLoadMeta
pmLogLoadMeta_iter(cat, f, pos, numpmid) ==
    IF Fread(f, pos, 8) /= 8
    THEN Branch(cat, pos + Fread(f, pos, 8), numpmid, 0, "end")
    ELSE IF Word(f, pos) <= 0
    THEN Branch(cat, pos + 8, numpmid, PM_ERR_LOGREC, "end")
    ELSE pmLogLoadMeta_record(cat, f, pos + 8, numpmid, Word(f, pos), Word(f, pos + 4))

pmLogLoadMeta_return_sts(sts, numpmid) ==
    sts

pmLogLoadMeta_return_zero(sts, numpmid) ==
    IF numpmid = 0 THEN PM_ERR_LOGREC ELSE 0

\* the value __pmLogLoadMeta returns, from sts at the label end
pmLogLoadMeta_return(sts, numpmid) ==
    IF sts = 0 THEN (IF numpmid = 0 THEN PM_ERR_LOGREC ELSE 0) ELSE sts

(***************************************************************************)
(* The metadata files the loader is run on.                                *)
(***************************************************************************)
\* a record: header (len, type), payload, trailer (len)
Rec(type, payload) ==
    <<4 * (Len(payload) + 3), type>> \o payload \o <<4 * (Len(payload) + 3)>>

\* the record with a trailer that is four short of the header's length
BadTrailer(rec) ==
    [rec EXCEPT ![Len(rec)] = rec[1] - 4]

\* pmid 1, type, indom, sem and units 0, one name of four bytes
DescRec == Rec(TYPE_DESC, <<1, 0, 0, 0, 0, 1, 4, 2019980132>>)

\* pmid 1 again with type 1: __pmLogAddDesc answers PM_ERR_LOGCHANGETYPE
ChangedDescRec == Rec(TYPE_DESC, <<1, 1, 0, 0, 0, 1, 4, 2019980132>>)

TextRec(type) == Rec(TYPE_TEXT, <<type, 1, 101>>)

\* stamp 1.2, indom 1, the instance 1 named "a"
InDomRec(htype) == Rec(htype, <<0, 1, 2, 1, 1, 1, 0, 97>>)

\* one label set {x = 1} of instance 1, for item 1 at stamp sec.1
LabelRec(sec) ==
    Rec(TYPE_LABEL, <<0, sec, 1, PM_LABEL_ITEM, 1, 1, 1, 4, 1, 1, 11, 12>>)

Records ==
    { DescRec,
      BadTrailer(DescRec),
      ChangedDescRec,
      TextRec(PM_TEXT_ONELINE + PM_TEXT_PMID),
      TextRec(0),
      TextRec(PM_TEXT_ONELINE + PM_TEXT_PMID + PM_TEXT_INDOM),
      BadTrailer(TextRec(PM_TEXT_HELP)),
      Rec(9, <<77>>),
      BadTrailer(Rec(9, <<77>>)),
      InDomRec(TYPE_INDOM),
      InDomRec(TYPE_INDOM_DELTA),
      LabelRec(1),
      LabelRec(2),
      <<24>> }

\* the files of at most n records
RECURSIVE Streams(_)
Streams(n) ==
    IF n = 0 THEN { <<>> }
    ELSE Streams(n - 1) \cup
         { Append(st, r) : st \in { x \in Streams(n - 1) : Len(x) = n - 1 },
                           r \in Records }

RECURSIVE Flatten(_)
Flatten(recs) ==
    IF recs = <<>> THEN <<>> ELSE Head(recs) \o Flatten(Tail(recs))

\* the catalog of a new context, __pmLogLoadMeta about to read the file
InitLoad ==
    /\ l_hashindom = <<>>
    /\ l_hashpmid = <<>>
    /\ l_hashlabels = <<>>
    /\ l_hashtext = <<>>
    /\ l_pmns = <<>>
    /\ call = NoCall
    /\ ihash = NoIhash
    /\ un = NoQueries
    /\ \E recs \in Streams(MaxRecords) :
          ld = [pc |-> "loop", f |-> Flatten(recs), recs |-> recs, pos |-> 0,
                numpmid |-> 0, sts |-> 0]

\* one iteration of the loop of __pmLogLoadMeta
LoadMetaRecord ==
    /\ ld.pc = "loop"
    /\ \E b \in { pmLogLoadMeta_iter([indom |-> l_hashindom, pmid |-> l_hashpmid,
                                       labels |-> l_hashlabels, text |-> l_hashtext,
                                       pmns |-> l_pmns],
                                      ld.f, ld.pos, ld.numpmid) } :
           /\ l_hashindom' = b.cat.indom
           /\ l_hashpmid' = b.cat.pmid
           /\ l_hashlabels' = b.cat.labels
           /\ l_hashtext' = b.cat.text
           /\ l_pmns' = b.cat.pmns
           /\ ld' = [ld EXCEPT !.pc = IF b.go = "continue" THEN "loop" ELSE b.go,
                               !.pos = b.pos, !.numpmid = b.numpmid, !.sts = b.sts]
    /\ UNCHANGED <<call, ihash, un>>

\* from the label end to the return of __pmLogLoadMeta
LoadMetaEnd ==
    /\ ld.pc = "end"
    /\ l_hashlabels' = check_dup_labels(l_hashlabels)
    /\ ld' = [ld EXCEPT !.pc = "done", !.pos = 0,
                        !.sts = pmLogLoadMeta_return(ld.sts, ld.numpmid)]
    /\ call' = [op |-> "loadmeta", arg |-> <<>>,
                sts |-> pmLogLoadMeta_return(ld.sts, ld.numpmid),
                ret |-> [unlinked  |-> SumGroups(l_hashlabels, 1)
                                       - SumGroups(check_dup_labels(l_hashlabels), 1),
                         discarded |-> SumSets(AllGroups(l_hashlabels, 1, 1), 1)
                                       - SumSets(AllGroups(check_dup_labels(l_hashlabels), 1, 1), 1)]]
    /\ UNCHANGED <<l_hashindom, l_hashpmid, l_hashtext, l_pmns, ihash, un>>

NextLoad ==
    \/ LoadMetaRecord
    \/ LoadMetaEnd

SpecLoad == InitLoad /\ [][NextLoad]_vars

(***************************************************************************)
(* The decode buffers of the INDOM records.  __pmLogLoadInDom hands the    *)
(* loader buf and, when allinbuf is 0, a namelist allocated apart; the     *)
(* node addindom builds points at both.  ld.bufs lists every buffer handed *)
(* out with the free() calls the loader made on it (frees) and the nodes   *)
(* linked in a chain that point at it (refs).  Here malloc may fail in     *)
(* addindom.                                                               *)
(***************************************************************************)
\* addindom when its malloc, or that of __pmHashAdd, fails: nothing is linked
addindom_nomem(hash) ==
    [sts |-> ENOMEM, hash |-> hash]

pmLogLoadMeta_indom_frees_err(sts) ==
    IF sts < 0 THEN 1 ELSE 0

\* the free() calls on a buffer after __pmLogAddInDom returned sts
pmLogLoadMeta_indom_frees(sts) ==
    IF sts < 0 THEN 1
    ELSE IF sts = PMLOGPUTINDOM_DUP THEN 1
    ELSE 0

\* the buffers of a record with instances, r being what addindom answered for
\* the table hash: a node that points at them is linked if the table grew
pmLogLoadMeta_indom_held(hash, r, allinbuf) ==
    <<[what |-> "buf", sts |-> r.sts, numinst |-> 1,
       frees |-> pmLogLoadMeta_indom_frees(r.sts),
       refs |-> SumLen(r.hash, 1) - SumLen(hash, 1)]>>
    \o IF allinbuf = 0
       THEN <<[what |-> "namelist", sts |-> r.sts, numinst |-> 1,
               frees |-> pmLogLoadMeta_indom_frees(r.sts),
               refs |-> SumLen(r.hash, 1) - SumLen(hash, 1)]>>
       ELSE <<>>

\* the buffers of the INDOM record that __pmLogLoadInDom decoded as in
pmLogLoadMeta_indom_bufs(in, hash, allinbuf, nomem) ==
    IF in.sts < 0 THEN <<>>
    ELSE IF in.numinst > 0
    THEN pmLogLoadMeta_indom_held(
             hash,
             IF nomem THEN addindom_nomem(hash)
             ELSE addindom(hash, in.indom, in.stamp, in.numinst,
                           in.instlist, in.namelist),
             allinbuf)
    ELSE <<[what |-> "buf", sts |-> 0, numinst |-> 0, frees |-> 1, refs |-> 0]>>

\* the record at pos is an INDOM record
InDomAt(f, pos) ==
    /\ Fread(f, pos, 8) = 8
    /\ Word(f, pos) > 0
    /\ Word(f, pos + 4) \in { TYPE_INDOM, TYPE_INDOM_V2 }

\* the buffers handed out by one iteration of the loop
pmLogLoadMeta_iter_bufs(hash, f, pos, allinbuf, nomem) ==
    IF InDomAt(f, pos)
    THEN pmLogLoadMeta_indom_bufs(
             pmLogLoadInDom(f, pos + 8, pmLogLoadMeta_rlen(Word(f, pos)),
                            Word(f, pos + 4)),
             hash, allinbuf, nomem)
    ELSE <<>>

\* one iteration of the loop, malloc failing in addindom if nomem
pmLogLoadMeta_iter_nomem(cat, f, pos, numpmid, nomem) ==
    IF /\ nomem
       /\ InDomAt(f, pos)
       /\ pmLogLoadInDom(f, pos + 8, pmLogLoadMeta_rlen(Word(f, pos)),
                         Word(f, pos + 4)).sts >= 0
       /\ pmLogLoadInDom(f, pos + 8, pmLogLoadMeta_rlen(Word(f, pos)),
                         Word(f, pos + 4)).numinst > 0
    THEN Branch(cat, pos + 8 + pmLogLoadMeta_rlen(Word(f, pos)), numpmid,
                ENOMEM, "end")
    ELSE pmLogLoadMeta_iter(cat, f, pos, numpmid)

\* stamp 1.2, indom 1, the instance 2 named "b"
OtherInDomRec(htype) == Rec(htype, <<0, 1, 2, 1, 1, 2, 0, 98>>)

\* stamp 1.2, indom 1, no instance
EmptyInDomRec(htype) == Rec(htype, <<0, 1, 2, 1, 0>>)

InDomRecords ==
    { DescRec,
      InDomRec(TYPE_INDOM),
      OtherInDomRec(TYPE_INDOM),
      EmptyInDomRec(TYPE_INDOM),
      Rec(TYPE_INDOM, <<0, 1, 2>>),
      BadTrailer(InDomRec(TYPE_INDOM)) }

InDomStreams(n) ==
    UNION { [1..k -> InDomRecords] : k \in 0..n }

InitLoadInDom ==
    /\ l_hashindom = <<>>
    /\ l_hashpmid = <<>>
    /\ l_hashlabels = <<>>
    /\ l_hashtext = <<>>
    /\ l_pmns = <<>>
    /\ call = NoCall
    /\ ihash = NoIhash
    /\ un = NoQueries
    /\ \E recs \in InDomStreams(MaxRecords) :
          ld = [pc |-> "loop", f |-> Flatten(recs), recs |-> recs, pos |-> 0,
                numpmid |-> 0, sts |-> 0, bufs |-> <<>>]

\* one iteration of the loop of __pmLogLoadMeta, the buffers followed
LoadMetaRecordBufs ==
    /\ ld.pc = "loop"
    /\ \E allinbuf \in { 0, 1 }, nomem \in BOOLEAN :
         \E b \in { pmLogLoadMeta_iter_nomem(
                        [indom |-> l_hashindom, pmid |-> l_hashpmid,
                         labels |-> l_hashlabels, text |-> l_hashtext,
                         pmns |-> l_pmns],
                        ld.f, ld.pos, ld.numpmid, nomem) } :
           /\ l_hashindom' = b.cat.indom
           /\ l_hashpmid' = b.cat.pmid
           /\ l_hashlabels' = b.cat.labels
           /\ l_hashtext' = b.cat.text
           /\ l_pmns' = b.cat.pmns
           /\ ld' = [ld EXCEPT !.pc = IF b.go = "continue" THEN "loop" ELSE b.go,
                               !.pos = b.pos, !.numpmid = b.numpmid, !.sts = b.sts,
                               !.bufs = @ \o pmLogLoadMeta_iter_bufs(
                                               l_hashindom, ld.f, ld.pos,
                                               allinbuf, nomem)]
    /\ UNCHANGED <<call, ihash, un>>

NextLoadInDom ==
    \/ LoadMetaRecordBufs
    \/ LoadMetaEnd

SpecLoadInDom == InitLoadInDom /\ [][NextLoadInDom]_vars

(***************************************************************************)
(* Metadata files of LABEL records, sound and corrupt.                     *)
(***************************************************************************)
\* a label set on file: inst 1, jsonlen, the json word, nlabels, one pmLabel
SetWords(jsonlen, nlabels) ==
    <<1, jsonlen, 1, nlabels, 11, 12>>

\* a LABEL (stamp 1.2 in 12 bytes) or LABEL_V2 (8 bytes) record for item
\* ident with nsets sets
LabelSetsRec(htype, ident, nsets, sets) ==
    Rec(htype, (IF htype = TYPE_LABEL_V2 THEN <<1, 2>> ELSE <<0, 1, 2>>)
               \o <<PM_LABEL_ITEM, ident, nsets>> \o sets)

LabelRecords ==
    { DescRec }
    \cup { LabelSetsRec(htype, 1, 1, SetWords(4, 1)) :
             htype \in { TYPE_LABEL, TYPE_LABEL_V2 } }
    \cup { LabelSetsRec(htype, 2, 1, SetWords(jsonlen, 1)) :
             htype \in { TYPE_LABEL, TYPE_LABEL_V2 },
             jsonlen \in { -4, PM_MAXLABELJSONLEN + 4 } }
    \cup { LabelSetsRec(htype, 2, 1, SetWords(4, nlabels)) :
             htype \in { TYPE_LABEL, TYPE_LABEL_V2 },
             nlabels \in { 2, PM_MAXLABELS + 1 } }
    \cup { LabelSetsRec(TYPE_LABEL, 2, 2, SetWords(4, 1) \o SetWords(jsonlen, 1)) :
             jsonlen \in { 4, -4 } }
    \cup { LabelSetsRec(TYPE_LABEL_V2, 2, 2, SetWords(4, 1) \o SetWords(4, 2)) }

LabelStreams(n) ==
    UNION { [1..k -> LabelRecords] : k \in 0..n }

\* __pmLogLoadMeta about to read a file of such records
InitLoadLabel ==
    /\ l_hashindom = <<>>
    /\ l_hashpmid = <<>>
    /\ l_hashlabels = <<>>
    /\ l_hashtext = <<>>
    /\ l_pmns = <<>>
    /\ call = NoCall
    /\ ihash = NoIhash
    /\ un = NoQueries
    /\ \E recs \in LabelStreams(MaxRecords) :
          ld = [pc |-> "loop", f |-> Flatten(recs), recs |-> recs, pos |-> 0,
                numpmid |-> 0, sts |-> 0]

SpecLoadLabel == InitLoadLabel /\ [][NextLoad]_vars

(***************************************************************************)
(* Metadata files with LABEL records whose payload ends before the fields  *)
(* the loader reads, each file loaded twice into a new catalog.            *)
(***************************************************************************)
ShortLabelRecords ==
    { DescRec }
    \cup { LabelSetsRec(htype, 1, 1, SetWords(4, 1)) :
             htype \in { TYPE_LABEL, TYPE_LABEL_V2 } }
    \* nsets is 2 and the payload holds one set
    \cup { LabelSetsRec(htype, 2, 2, SetWords(4, 1)) :
             htype \in { TYPE_LABEL, TYPE_LABEL_V2 } }
    \* jsonlen is 8 and the payload holds four bytes of json
    \cup { LabelSetsRec(TYPE_LABEL, 2, 1, <<1, 8, 1, 0>>) }
    \* the payload ends after the type
    \cup { Rec(TYPE_LABEL_V2, <<1, 2, PM_LABEL_ITEM>>) }

ShortLabelStreams(n) ==
    UNION { [1..k -> ShortLabelRecords] : k \in 0..n }

\* what the build can make of a read of tbuf[] at or past rlen: the words
\* there fail the jsonlen check and the record is rejected, or the read
\* faults and the call never returns
OutOfPayload ==
    { [go |-> "end", sts |-> PM_ERR_LOGREC], [go |-> "fault", sts |-> 0] }

\* the catalog of a new context
NewCatalog ==
    [indom |-> <<>>, pmid |-> <<>>, labels |-> <<>>, text |-> <<>>, pmns |-> <<>>]

\* ld.run counts the loads of the file, ld.first is what the first load
\* left and ld.oob tells that a load has read outside a record's buffer
InitLoadTwice ==
    /\ l_hashindom = <<>>
    /\ l_hashpmid = <<>>
    /\ l_hashlabels = <<>>
    /\ l_hashtext = <<>>
    /\ l_pmns = <<>>
    /\ call = NoCall
    /\ ihash = NoIhash
    /\ un = NoQueries
    /\ \E recs \in ShortLabelStreams(MaxRecords) :
          ld = [pc |-> "loop", f |-> Flatten(recs), recs |-> recs, pos |-> 0,
                numpmid |-> 0, sts |-> 0, run |-> 1, first |-> <<>>,
                oob |-> FALSE]

\* one iteration of the loop of __pmLogLoadMeta, a read outside the buffer
\* ending in one of OutOfPayload
LoadMetaRecordHeap ==
    /\ ld.pc = "loop"
    /\ \E b \in { pmLogLoadMeta_iter([indom |-> l_hashindom, pmid |-> l_hashpmid,
                                       labels |-> l_hashlabels, text |-> l_hashtext,
                                       pmns |-> l_pmns],
                                      ld.f, ld.pos, ld.numpmid) } :
         \E o \in IF b.go = "undefined" THEN OutOfPayload
                  ELSE { [go |-> b.go, sts |-> b.sts] } :
           /\ l_hashindom' = b.cat.indom
           /\ l_hashpmid' = b.cat.pmid
           /\ l_hashlabels' = b.cat.labels
           /\ l_hashtext' = b.cat.text
           /\ l_pmns' = b.cat.pmns
           /\ ld' = [ld EXCEPT !.pc = IF o.go = "continue" THEN "loop" ELSE o.go,
                               !.pos = b.pos, !.numpmid = b.numpmid, !.sts = o.sts,
                               !.oob = @ \/ b.go = "undefined"]
    /\ UNCHANGED <<call, ihash, un>>

\* the same file is loaded again, into the catalog of another new context
LoadMetaAgain ==
    /\ ld.run = 1
    /\ ld.pc \in { "done", "fault", "abort", "unaligned" }
    /\ l_hashindom' = NewCatalog.indom
    /\ l_hashpmid' = NewCatalog.pmid
    /\ l_hashlabels' = NewCatalog.labels
    /\ l_hashtext' = NewCatalog.text
    /\ l_pmns' = NewCatalog.pmns
    /\ ld' = [ld EXCEPT !.pc = "loop", !.pos = 0, !.numpmid = 0, !.sts = 0,
                        !.run = 2,
                        !.first = [cat |-> [indom |-> l_hashindom, pmid |-> l_hashpmid,
                                            labels |-> l_hashlabels,
                                            text |-> l_hashtext, pmns |-> l_pmns],
                                   pc |-> ld.pc, sts |-> ld.sts]]
    /\ call' = NoCall
    /\ UNCHANGED <<ihash, un>>

NextLoadTwice ==
    \/ LoadMetaRecordHeap
    \/ LoadMetaEnd
    \/ LoadMetaAgain

SpecLoadTwice == InitLoadTwice /\ [][NextLoadTwice]_vars

(***************************************************************************)
(* __pmLogPutDesc writing the file that __pmLogLoadMeta reads later.       *)
(***************************************************************************)
\* __htonpmUnits, the word ntohpmUnits reads back
htonpmUnits(u) ==
    IF u = Kbyte THEN 1 ELSE IF u = Mbyte THEN 2 ELSE u.scaleCount

\* the bytes of a name, as words
BytesOfName(name) ==
    IF name = "disk" THEN <<1684632427>>
    ELSE IF name = "kern" THEN <<1801810542>>
    ELSE IF name = "xfsd" THEN <<2019980132>>
    ELSE <<>>

StrLen(name) ==
    4 * Len(BytesOfName(name))

RECURSIVE pmLogPutDesc_namelen(_, _, _)
pmLogPutDesc_namelen(names, i, numnames) ==
    IF i > numnames THEN 0
    ELSE 4 + StrLen(names[i]) + pmLogPutDesc_namelen(names, i + 1, numnames)

\* len, the size of the record __pmLogPutDesc builds
pmLogPutDesc_len(numnames, names) ==
    8 + 20 + 4
    + (IF numnames > 0 THEN 4 + pmLogPutDesc_namelen(names, 1, numnames) ELSE 0)

\* the names with their length prefixes
RECURSIVE pmLogPutDesc_names(_, _, _)
pmLogPutDesc_names(names, i, numnames) ==
    IF i > numnames THEN <<>>
    ELSE <<StrLen(names[i])>> \o BytesOfName(names[i])
         \o pmLogPutDesc_names(names, i + 1, numnames)

\* the len bytes __pmLogPutDesc writes
pmLogPutDesc_out(dp, numnames, names) ==
    <<pmLogPutDesc_len(numnames, names), TYPE_DESC,
      dp.pmid, dp.type, dp.indom, dp.sem, htonpmUnits(dp.units)>>
    \o (IF numnames > 0
        THEN <<numnames>> \o pmLogPutDesc_names(names, 1, numnames)
             \o <<pmLogPutDesc_len(numnames, names)>>
        ELSE <<pmLogPutDesc_len(numnames, names)>>)

PutDescs ==
    { [pmid |-> 1, type |-> 0, sem |-> 0, indom |-> 0, units |-> Count],
      [pmid |-> 2, type |-> 1, sem |-> 1, indom |-> 1, units |-> Kbyte] }

PutNames ==
    { <<>>, <<"disk">>, <<"kern", "xfsd">> }

\* a new archive being written: nothing in its metadata file yet
InitPut ==
    /\ l_hashindom = <<>>
    /\ l_hashpmid = <<>>
    /\ l_hashlabels = <<>>
    /\ l_hashtext = <<>>
    /\ l_pmns = <<>>
    /\ call = NoCall
    /\ ihash = NoIhash
    /\ un = NoQueries
    /\ ld = [pc |-> "write", f |-> <<>>, recs |-> <<>>, pos |-> 0,
             numpmid |-> 0, sts |-> 0, put |-> <<>>]

\* __pmLogPutDesc, the write succeeding
PutDescRecord ==
    /\ ld.pc = "write"
    /\ Len(ld.recs) < MaxRecords
    /\ \E dp \in PutDescs, names \in PutNames :
          /\ ld' = [ld EXCEPT
                      !.f = @ \o pmLogPutDesc_out(dp, Len(names), names),
                      !.recs = Append(@, pmLogPutDesc_out(dp, Len(names), names)),
                      !.put = Append(@, [dp |-> dp, names |-> names])]
          /\ l_hashpmid' = pmLogPutDesc(l_hashpmid, dp, TRUE).hash
          /\ call' = [op |-> "putdesc", arg |-> dp,
                      sts |-> pmLogPutDesc(l_hashpmid, dp, TRUE).sts, ret |-> <<>>]
    /\ UNCHANGED <<l_hashindom, l_hashlabels, l_hashtext, l_pmns, ihash, un>>

\* the archive written is opened in a new context: __pmLogLoadMeta starts
\* on its file with an empty catalog
OpenWritten ==
    /\ ld.pc = "write"
    /\ ld.recs /= <<>>
    /\ l_hashindom' = <<>>
    /\ l_hashpmid' = <<>>
    /\ l_hashlabels' = <<>>
    /\ l_hashtext' = <<>>
    /\ l_pmns' = <<>>
    /\ ld' = [ld EXCEPT !.pc = "loop", !.pos = 0, !.numpmid = 0, !.sts = 0]
    /\ call' = NoCall
    /\ UNCHANGED <<ihash, un>>

NextPutLoad ==
    \/ PutDescRecord
    \/ OpenWritten
    \/ LoadMetaRecord
    \/ LoadMetaEnd

SpecPutLoad == InitPut /\ [][NextPutLoad]_vars

(***************************************************************************)
(* Timestamps put into a buffer and loaded from it again.                  *)
(***************************************************************************)
StampSecs ==
    { Sec64(0, 0), Sec64(0, 1), Sec64(0, 86400), Sec64(0, 2147483647),
      Sec64(0, -2147483647 - 1), Sec64(0, -1), Sec64(1, 5), Sec64(-1, -1) }

StampNsecs ==
    { 0, 1000, 500000000, 999999000, 1, 1500, 999999999, -1000 }

Hosts ==
    { "big", "little" }

\* __pmLogPutTimeval, then __pmLogLoadTimeval on the buffer it filled
PutLoadTimeval ==
    \E sec \in StampSecs, nsec \in StampNsecs :
        /\ call' = [op |-> "timeval", arg |-> [sec |-> sec, nsec |-> nsec],
                    sts |-> 0,
                    ret |-> [buf |-> pmLogPutTimeval([sec |-> sec, nsec |-> nsec]),
                             tsp |-> pmLogLoadTimeval_buf(
                                        pmLogPutTimeval([sec |-> sec, nsec |-> nsec]))]]
        /\ UNCHANGED <<l_hashindom, l_hashpmid, l_hashlabels, l_hashtext, l_pmns, ld, ihash, un>>

\* __pmLogPutTimestamp, then __pmLogLoadTimestamp on the buffer it filled,
\* both on the same host
PutLoadTimestamp ==
    \E host \in Hosts, sec \in StampSecs, nsec \in StampNsecs :
        /\ call' = [op |-> "timestamp",
                    arg |-> [host |-> host, sec |-> sec, nsec |-> nsec],
                    sts |-> 0,
                    ret |-> [buf |-> pmLogPutTimestamp(host, [sec |-> sec, nsec |-> nsec]),
                             tsp |-> pmLogLoadTimestamp_buf(host,
                                        pmLogPutTimestamp(host, [sec |-> sec, nsec |-> nsec]))]]
        /\ UNCHANGED <<l_hashindom, l_hashpmid, l_hashlabels, l_hashtext, l_pmns, ld, ihash, un>>

NextStamp ==
    \/ PutLoadTimeval
    \/ PutLoadTimestamp

SpecStamp == Init /\ [][NextStamp]_vars

(***************************************************************************)
(* Vocabulary of the properties.                                           *)
(***************************************************************************)
Later(a, b) ==
    a.sec > b.sec \/ (a.sec = b.sec /\ a.nsec > b.nsec)

ContentEqual(a, b) ==
    /\ a.numinst = b.numinst
    /\ a.instlist = b.instlist
    /\ a.namelist = b.namelist

\* the (id, name) pairs of instance arrays, with their multiplicities
PairCount(a, id, name) ==
    Cardinality({ i \in 1..a.numinst : a.instlist[i] = id /\ a.namelist[i] = name })

SamePairs(a, b) ==
    /\ a.numinst = b.numinst
    /\ \A i \in 1..a.numinst :
          PairCount(a, a.instlist[i], a.namelist[i]) =
          PairCount(b, a.instlist[i], a.namelist[i])

DistinctIds(a) ==
    \A i, j \in 1..a.numinst : i /= j => a.instlist[i] /= a.instlist[j]

AscendingIds(a) ==
    \A i \in 1..(a.numinst - 1) : a.instlist[i] <= a.instlist[i + 1]

\* the chain stored for a key, empty when the key has none
ChainOf(hash, key) ==
    LET at == { i \in 1..Len(hash) : hash[i].key = key }
    IN  IF at = {} THEN <<>>
        ELSE hash[CHOOSE i \in at : \A j \in at : i <= j].data

\* the indexes of the snapshots of a chain carrying stamp t
SlotOf(chain, t) ==
    { i \in 1..Len(chain) : chain[i].stamp = t }

\* the snapshot an addindom call builds from its arguments
Built(arg) ==
    [stamp |-> arg.stamp] @@ addinsts(arg.numinst, arg.instlist, arg.namelist)

(***************************************************************************)
(* Claims about the indom history store.                                   *)
(***************************************************************************)
\* C1: in every indom chain, adjacent snapshots (a nearer the head, then b)
\* have a.stamp >= b.stamp, and when the stamps are equal a and b are not
\* content-equal.
C1_IndomOrdering ==
    \A k \in 1..Len(l_hashindom) :
        LET c == l_hashindom[k].data
        IN  \A i \in 1..(Len(c) - 1) :
               /\ ~Later(c[i + 1].stamp, c[i].stamp)
               /\ c[i].stamp = c[i + 1].stamp => ~ContentEqual(c[i], c[i + 1])

C1_Witness ==
    /\ call.op = "addindom"
    /\ \E k \in 1..Len(l_hashindom) :
          LET c == l_hashindom[k].data
          IN  /\ Len(c) = 3
              /\ c[1].stamp = c[2].stamp
              /\ Later(c[2].stamp, c[3].stamp)

\* C2: get_indom(indom, T) returns the snapshot with the greatest stamp <= T,
\* the head-most one of that stamp's run; it returns PM_ERR_INDOM_LOG when
\* every snapshot is later than T or the indom has no chain; with no T it
\* returns the head of the chain.
C2_PointInTime ==
    call.op = "getindom" =>
        LET c  == ChainOf(l_hashindom, call.arg.indom)
            T  == call.arg.stamp
            ok == IF T = NULL THEN 1..Len(c)
                  ELSE { i \in 1..Len(c) : ~Later(c[i].stamp, T[1]) }
        IN  IF ok = {}
            THEN call.sts = PM_ERR_INDOM_LOG
            ELSE \E i \in ok :
                    /\ \A j \in ok : ~Later(c[j].stamp, c[i].stamp)
                    /\ \A j \in 1..(i - 1) : c[j].stamp /= c[i].stamp
                    /\ T = NULL => i = 1
                    /\ call.ret.idp = i
                    /\ call.sts = c[i].numinst
                    /\ call.ret.instlist = c[i].instlist
                    /\ call.ret.namelist = c[i].namelist

C2_Witness ==
    /\ call.op = "getindom"
    /\ call.arg.stamp /= NULL
    /\ call.ret.idp = 2
    /\ Len(ChainOf(l_hashindom, call.arg.indom)) = 3

\* C3 as stated: when the chain already holds, at stamp t, a snapshot with
\* the same (id, name) pairs as the arrays passed, in any order, addindom
\* returns PMLOGPUTINDOM_DUP and the chain holds exactly one snapshot with
\* those pairs at stamp t.
C3_PermutationIsDup ==
    [][ \A arg \in { call'.arg } :
          LET c == ChainOf(l_hashindom, arg.indom)
          IN  (/\ call'.op = "addindom"
               /\ \E i \in SlotOf(c, arg.stamp) : SamePairs(c[i], arg))
              => LET c2 == ChainOf(l_hashindom', arg.indom)
                 IN  /\ call'.sts = PMLOGPUTINDOM_DUP
                     /\ Cardinality({ i \in SlotOf(c2, arg.stamp) :
                                        SamePairs(c2[i], arg) }) = 1 ]_vars

\* C3 amended: the same, for arrays whose instance ids are pairwise distinct.
C3_DistinctIdPermutationIsDup ==
    [][ \A arg \in { call'.arg } :
          LET c == ChainOf(l_hashindom, arg.indom)
          IN  (/\ call'.op = "addindom"
               /\ DistinctIds(arg)
               /\ \E i \in SlotOf(c, arg.stamp) : SamePairs(c[i], arg))
              => LET c2 == ChainOf(l_hashindom', arg.indom)
                 IN  /\ call'.sts = PMLOGPUTINDOM_DUP
                     /\ Cardinality({ i \in SlotOf(c2, arg.stamp) :
                                        SamePairs(c2[i], arg) }) = 1 ]_vars

C3_Witness ==
    /\ call.op = "addindom"
    /\ call.sts = PMLOGPUTINDOM_DUP
    /\ call.arg.instlist = <<2, 1>>
    /\ \E i \in SlotOf(ChainOf(l_hashindom, call.arg.indom), call.arg.stamp) :
          ChainOf(l_hashindom, call.arg.indom)[i].instlist = <<1, 2>>

\* C4: whenever addindom returns PMLOGPUTINDOM_DUP, the stored content-equal
\* snapshot is afterwards the first node of the run carrying that stamp, all
\* other nodes keep their relative order, and the chain has as many nodes as
\* before.
C4_DupMovesToSlotHead ==
    [][ \A arg \in { call'.arg } :
          (call'.op = "addindom" /\ call'.sts = PMLOGPUTINDOM_DUP)
          => LET c  == ChainOf(l_hashindom, arg.indom)
                 c2 == ChainOf(l_hashindom', arg.indom)
             IN  /\ Len(c2) = Len(c)
                 /\ \E j \in SlotOf(c, arg.stamp) :
                       /\ ContentEqual(c[j], Built(arg))
                       /\ \E i \in SlotOf(c2, arg.stamp) :
                             /\ \A k \in SlotOf(c2, arg.stamp) : i <= k
                             /\ c2[i] = c[j]
                             /\ Unlink(c2, i) = Unlink(c, j)
                 /\ \A other \in InDoms \ { arg.indom } :
                       ChainOf(l_hashindom', other) = ChainOf(l_hashindom, other) ]_vars

C4_Witness ==
    /\ call.op = "addindom"
    /\ call.sts = PMLOGPUTINDOM_DUP
    /\ LET c == ChainOf(l_hashindom, call.arg.indom)
       IN  /\ Cardinality(SlotOf(c, call.arg.stamp)) >= 2
           /\ \E i \in SlotOf(c, call.arg.stamp) :
                 /\ \A k \in SlotOf(c, call.arg.stamp) : i <= k
                 /\ ContentEqual(c[i], Built(call.arg))

\* C5: when the existing chain holds no content-equal snapshot with stamp t,
\* addindom returns 0, the chain gains exactly one node holding the arrays
\* passed, placed after every snapshot with stamp > t and before every snapshot
\* with stamp <= t, and the nodes stored before keep their relative order.
C5_NewAtSlotHead ==
    [][ \A arg \in { call'.arg } :
          LET c == ChainOf(l_hashindom, arg.indom)
          IN  (/\ call'.op = "addindom"
               /\ Len(c) > 0
               /\ \A j \in SlotOf(c, arg.stamp) : ~ContentEqual(c[j], Built(arg)))
              => LET c2 == ChainOf(l_hashindom', arg.indom)
                 IN  /\ call'.sts = 0
                     /\ Len(c2) = Len(c) + 1
                     /\ \E i \in 1..Len(c2) :
                           /\ c2[i].stamp = arg.stamp
                           /\ SamePairs(c2[i], arg)
                           /\ AscendingIds(c2[i])
                           /\ Unlink(c2, i) = c
                           /\ \A k \in 1..(i - 1) : Later(c2[k].stamp, arg.stamp)
                           /\ \A k \in (i + 1)..Len(c2) : ~Later(c2[k].stamp, arg.stamp) ]_vars

C5_Witness ==
    /\ call.op = "addindom"
    /\ call.sts = 0
    /\ LET c == ChainOf(l_hashindom, call.arg.indom)
       IN  /\ Len(c) = 3
           /\ Later(c[1].stamp, call.arg.stamp)
           /\ c[2] = Built(call.arg)
           /\ c[3].stamp = call.arg.stamp
           /\ ~ContentEqual(c[3], c[2])

\* C6 as stated: no indom chain holds two snapshots, adjacent or not, that
\* are content-equal.
C6_NoEqualSnapshots ==
    \A k \in 1..Len(l_hashindom) :
        LET c == l_hashindom[k].data
        IN  \A i, j \in 1..Len(c) : i /= j => ~ContentEqual(c[i], c[j])

\* C6 amended: no indom chain holds two snapshots, adjacent or not, that
\* carry the same stamp and are content-equal.
C6_NoEqualSnapshotsInSlot ==
    \A k \in 1..Len(l_hashindom) :
        LET c == l_hashindom[k].data
        IN  \A i, j \in 1..Len(c) :
               (i /= j /\ c[i].stamp = c[j].stamp) => ~ContentEqual(c[i], c[j])

C6_Witness ==
    /\ call.op = "addindom"
    /\ call.sts = PMLOGPUTINDOM_DUP
    /\ LET c == ChainOf(l_hashindom, call.arg.indom)
       IN  /\ Len(c) = 3
           /\ c[1].stamp = c[3].stamp
           /\ ContentEqual(c[1], Built(call.arg))

(***************************************************************************)
(* Claims about the descriptor store.                                      *)
(***************************************************************************)
\* C7: __pmLogAddDesc for a pmid already stored returns the error of the
\* first differing field group, in the order type, sem, indom, units, returns
\* 0 when all four match, and in each case leaves the store as it was.
C7_AddDescConflict ==
    [][ (call'.op = "adddesc" /\ \E i \in 1..Len(l_hashpmid) :
                                    l_hashpmid[i].key = call'.arg.pmid)
        => LET newdp == call'.arg
               olddp == ChainOf(l_hashpmid, newdp.pmid)
           IN  /\ l_hashpmid' = l_hashpmid
               /\ call'.sts =
                    IF newdp.type /= olddp.type THEN PM_ERR_LOGCHANGETYPE
                    ELSE IF newdp.sem /= olddp.sem THEN PM_ERR_LOGCHANGESEM
                    ELSE IF newdp.indom /= olddp.indom THEN PM_ERR_LOGCHANGEINDOM
                    ELSE IF newdp.units /= olddp.units THEN PM_ERR_LOGCHANGEUNITS
                    ELSE 0 ]_vars

C7_Witness ==
    /\ call.op = "adddesc"
    /\ call.sts = PM_ERR_LOGCHANGETYPE
    /\ \E i \in 1..Len(l_hashpmid) :
          /\ l_hashpmid[i].key = call.arg.pmid
          /\ l_hashpmid[i].data.type /= call.arg.type
          /\ l_hashpmid[i].data.sem /= call.arg.sem

\* C8: over any sequence of add_desc and put_desc calls, once lookup_desc
\* finds a descriptor for a pmid it goes on returning that same descriptor,
\* field for field.
C8_DescFrozen ==
    [][ \A pmid \in PMIDs :
          pmLogLookupDesc(l_hashpmid, pmid).sts = 0
          => pmLogLookupDesc(l_hashpmid', pmid) = pmLogLookupDesc(l_hashpmid, pmid) ]_vars

(***************************************************************************)
(* Claims about the label store.                                           *)
(***************************************************************************)
\* the chain of the (type, ident) a call names, as the lookup finds it
LabelChainOf(hashlabels, arg) ==
    LET type  == arg.type % PM_LABEL_COMPOUND
        ident == IF type = PM_LABEL_CONTEXT THEN PM_ID_NULL ELSE arg.ident
    IN  ChainOf(ChainOf(hashlabels, type), ident)

\* the group an addlabel call builds from its arguments
BuiltGroup(arg) ==
    [stamp |-> arg.stamp, type |-> arg.type, ident |-> arg.ident,
     nsets |-> arg.nsets, labelsets |-> arg.labelsets]

\* C9: after check_dup_labels returns, in every (type, ident) chain no set of
\* a group is samelabelset-equal to any set of the next group of the chain.
C9_NoAdjacentDupLabels ==
    call.op = "check_dup_labels" =>
        \A t \in 1..Len(l_hashlabels) :
            \A n \in 1..Len(l_hashlabels[t].data) :
                LET c == l_hashlabels[t].data[n].data
                IN  \A i \in 1..(Len(c) - 1) :
                       \A a \in 1..c[i].nsets, b \in 1..c[i + 1].nsets :
                          ~samelabelset(c[i].labelsets[a], c[i + 1].labelsets[b])

C11_LabelChainDescending ==
    \A t \in 1..Len(l_hashlabels) :
        \A n \in 1..Len(l_hashlabels[t].data) :
            LET c == l_hashlabels[t].data[n].data
            IN  \A i \in 1..(Len(c) - 1) : ~Later(c[i + 1].stamp, c[i].stamp)

C11_Witness ==
    /\ call.op = "addlabel"
    /\ LET c == LabelChainOf(l_hashlabels, call.arg)
       IN  /\ Len(c) = 3
           /\ c[1] = BuiltGroup(call.arg)
           /\ Later(c[1].stamp, c[2].stamp)
           /\ c[2].stamp = c[3].stamp

\* a group without the label sets that equal a set of its older neighbour
Without(g, g_next) ==
    LET kept == SelectSeq(g.labelsets,
                          LAMBDA s : ~\E j \in 1..g_next.nsets :
                                        samelabelset(s, g_next.labelsets[j]))
    IN  [g EXCEPT !.nsets = Len(kept), !.labelsets = kept]

\* a chain whose groups were each compared with the older neighbour they had
RECURSIVE DedupedFrom(_, _)
DedupedFrom(c, i) ==
    IF i > Len(c) THEN <<>>
    ELSE IF i = Len(c) THEN <<c[i]>>
    ELSE LET g == Without(c[i], c[i + 1])
         IN  (IF g.nsets = 0 THEN <<>> ELSE <<g>>) \o DedupedFrom(c, i + 1)

\* C12: check_dup_labels, comparing a group g with its older neighbour
\* g_next, removes from g exactly the sets equal to a set of g_next, keeps
\* the other sets of g in their order, compares against g_next as it was,
\* and unlinks g exactly when no set is left in it.
C12_DiscardExact ==
    [][ call'.op = "check_dup_labels"
        => /\ Len(l_hashlabels') = Len(l_hashlabels)
           /\ \A t \in 1..Len(l_hashlabels) :
                 /\ l_hashlabels'[t].key = l_hashlabels[t].key
                 /\ Len(l_hashlabels'[t].data) = Len(l_hashlabels[t].data)
                 /\ \A n \in 1..Len(l_hashlabels[t].data) :
                       /\ l_hashlabels'[t].data[n].key = l_hashlabels[t].data[n].key
                       /\ l_hashlabels'[t].data[n].data =
                             DedupedFrom(l_hashlabels[t].data[n].data, 1) ]_vars

C12_Witness ==
    /\ call.op = "check_dup_labels"
    /\ call.ret.discarded = 1
    /\ call.ret.unlinked = 0
    /\ \E t \in 1..Len(l_hashlabels) :
          \E n \in 1..Len(l_hashlabels[t].data) :
             LET c == l_hashlabels[t].data[n].data
             IN  /\ Len(c) = 2
                 /\ c[1].labelsets = <<SetB>>
                 /\ c[2].labelsets = <<SetA>>
                 /\ SumGroups(l_hashlabels, 1) = 2

\* the key a (type, ident) pair is filed under
NormalisedKey(k) ==
    [type  |-> k.type % PM_LABEL_COMPOUND,
     ident |-> IF k.type % PM_LABEL_COMPOUND = PM_LABEL_CONTEXT
               THEN PM_ID_NULL ELSE k.ident]

TextsHeld(hashtext, ident, type) ==
    { <<t, n>> \in (1..Len(hashtext)) \X (1..MaxTexts) :
         /\ n <= Len(hashtext[t].data)
         /\ hashtext[t].key = type
         /\ hashtext[t].data[n].key = ident }

\* C14: for every text type and ident, once addtext(ident, type, s) has
\* returned success the lookup of (ident, type) returns s, exactly one string
\* is held for (type, ident), and adding the string already held changes
\* nothing.
C14_TextLatest ==
    [][ (call'.op = "addtext" /\ call'.sts = 0 /\ call'.ret = <<>>)
        => LET a == call'.arg
           IN  /\ pmLogLookupText(l_hashtext', a.ident, a.type) =
                     [sts |-> 0, buffer |-> <<a.buffer>>]
               /\ Cardinality(TextsHeld(l_hashtext', a.ident, a.type)) = 1
               /\ pmLogLookupText(l_hashtext, a.ident, a.type) =
                     [sts |-> 0, buffer |-> <<a.buffer>>]
                  => l_hashtext' = l_hashtext ]_vars

(***************************************************************************)
(* Claims about the loader.                                                *)
(***************************************************************************)
\* the offset at which record i of the file starts
RECURSIVE Boundary(_, _)
Boundary(recs, i) ==
    IF i <= 1 THEN 0 ELSE Boundary(recs, i - 1) + 4 * Len(recs[i - 1])

\* the loader is about to read the header of record i, a whole record
AtRecord(i) ==
    /\ ld.pc = "loop"
    /\ i \in 1..Len(ld.recs)
    /\ Len(ld.recs[i]) >= 3
    /\ ld.pos = Boundary(ld.recs, i)

\* record i of the file ends with the length it starts with
GoodTrailer(i) ==
    ld.recs[i][Len(ld.recs[i])] = ld.recs[i][1]

\* the catalog apart from the label store is left as it is
SameButLabels ==
    /\ l_hashindom' = l_hashindom
    /\ l_hashpmid' = l_hashpmid
    /\ l_hashtext' = l_hashtext

\* a text type the format rules out: neither ONELINE nor HELP, or not
\* exactly one of PMID and INDOM
BadTextType(type) ==
    \/ ~(Bit(type, PM_TEXT_ONELINE) \/ Bit(type, PM_TEXT_HELP))
    \/ Bit(type, PM_TEXT_PMID) = Bit(type, PM_TEXT_INDOM)

\* C15: the loader skips every TEXT record whose type has neither ONELINE
\* nor HELP set or has not exactly one of PMID and INDOM set, both set
\* included, and the text store is left as it was.
C15_BadTextSkipped ==
    [][ \A i \in 1..Len(ld.recs) :
          (/\ AtRecord(i)
           /\ ld.recs[i][2] = TYPE_TEXT
           /\ BadTextType(ld.recs[i][3]))
          => l_hashtext' = l_hashtext ]_vars

\* C16: after the loader has skipped a TEXT record for its type it is in
\* the loop again, at the boundary of the next record (past the trailer of
\* the one skipped), so that the records that follow are applied.
C16_SkipResumesAtBoundary ==
    [][ \A i \in 1..Len(ld.recs) :
          (/\ AtRecord(i)
           /\ ld.recs[i][2] = TYPE_TEXT
           /\ BadTextType(ld.recs[i][3])
           /\ GoodTrailer(i))
          => /\ ld'.pc = "loop"
             /\ ld'.pos = Boundary(ld.recs, i + 1) ]_vars

\* C17: on a record whose trailer length differs from its header length the
\* loader goes to its end with PM_ERR_LOGREC, returns it, and applies no
\* record after it.
C17_TrailerMismatchAborts ==
    [][ /\ \A i \in 1..Len(ld.recs) :
            (AtRecord(i) /\ ~GoodTrailer(i))
            => (ld'.pc = "end" /\ ld'.sts = PM_ERR_LOGREC)
        /\ (ld.pc = "end" /\ ld.sts = PM_ERR_LOGREC)
            => (ld'.pc = "done" /\ ld'.sts = PM_ERR_LOGREC /\ SameButLabels)
        /\ ld.pc = "done" => UNCHANGED vars ]_vars

\* the record types the format defines
KnownTypes ==
    { TYPE_DESC, TYPE_INDOM_V2, TYPE_LABEL_V2, TYPE_TEXT, TYPE_INDOM,
      TYPE_INDOM_DELTA, TYPE_LABEL }

\* C18: on a record of unknown type the loader changes no store, skips the
\* len - 12 bytes of payload, checks the trailer against the header length
\* (PM_ERR_LOGREC when they differ) and goes on with the record at
\* offset + len.
C18_UnknownTypeSkipped ==
    [][ \A i \in 1..Len(ld.recs) :
          (AtRecord(i) /\ ld.recs[i][2] \notin KnownTypes)
          => /\ SameButLabels
             /\ l_hashlabels' = l_hashlabels
             /\ ld'.numpmid = ld.numpmid
             /\ IF GoodTrailer(i)
                THEN /\ ld'.pc = "loop"
                     /\ ld'.pos = ld.pos + ld.recs[i][1]
                     /\ ld'.pos = ld.pos + 8 + (ld.recs[i][1] - 12) + 4
                ELSE /\ ld'.pc = "end"
                     /\ ld'.sts = PM_ERR_LOGREC ]_vars

C18_Witness ==
    /\ ld.pc = "loop"
    /\ l_hashpmid /= <<>>
    /\ Len(ld.recs) = 3
    /\ ld.recs[2] = Rec(9, <<77>>)
    /\ ld.pos = Boundary(ld.recs, 3)

\* C19: an INDOM_DELTA record is decoded like the other INDOM records and,
\* with numinst > 0, handed to the indom insert: afterwards the chain of its
\* indom holds a snapshot with its stamp.
C19_InDomDeltaLoaded ==
    [][ \A i \in 1..Len(ld.recs) :
          (/\ AtRecord(i)
           /\ ld.recs[i][2] = TYPE_INDOM_DELTA
           /\ ld.recs[i][7] > 0
           /\ GoodTrailer(i))
          => \E n \in 1..Len(ChainOf(l_hashindom', ld.recs[i][6])) :
                ChainOf(l_hashindom', ld.recs[i][6])[n].stamp =
                   [sec |-> ld.recs[i][4], nsec |-> ld.recs[i][5]] ]_vars

\* the DESC records of the file that the loader has gone past
DescSeen ==
    Cardinality({ i \in 1..Len(ld.recs) :
                    /\ Len(ld.recs[i]) >= 3
                    /\ ld.recs[i][2] = TYPE_DESC
                    /\ Boundary(ld.recs, i) < ld.pos })

\* C20: a header read that comes short at the end of the file ends the loop
\* without an error; the loader then runs check_dup_labels and returns 0
\* when a DESC record was seen, PM_ERR_LOGREC when none was.
C20_EofEndsCleanly ==
    [][ /\ (ld.pc = "loop" /\ Fread(ld.f, ld.pos, 8) < 8)
            => (ld'.pc = "end" /\ ld'.sts = 0 /\ SameButLabels
                /\ l_hashlabels' = l_hashlabels)
        /\ (ld.pc = "end" /\ ld.sts = 0)
            => /\ ld'.pc = "done"
               /\ ld'.sts = IF DescSeen > 0 THEN 0 ELSE PM_ERR_LOGREC
               /\ call'.sts = ld'.sts
               /\ SameButLabels
               /\ Len(l_hashlabels') = Len(l_hashlabels)
               /\ \A t \in 1..Len(l_hashlabels) :
                     /\ Len(l_hashlabels'[t].data) = Len(l_hashlabels[t].data)
                     /\ \A n \in 1..Len(l_hashlabels[t].data) :
                           l_hashlabels'[t].data[n].data =
                              DedupedFrom(l_hashlabels[t].data[n].data, 1) ]_vars

C20_Witness ==
    /\ ld.pc = "done"
    /\ ld.sts = 0
    /\ l_hashpmid /= <<>>
    /\ call.op = "loadmeta"
    /\ call.ret.discarded = 1
    /\ call.ret.unlinked = 1

\* the descriptor a DESC record spells
DescOfRec(rec) ==
    [pmid |-> rec[3], type |-> rec[4], indom |-> rec[5], sem |-> rec[6],
     units |-> ntohpmUnits(rec[7])]

LogChanges ==
    { PM_ERR_LOGCHANGETYPE, PM_ERR_LOGCHANGESEM, PM_ERR_LOGCHANGEINDOM,
      PM_ERR_LOGCHANGEUNITS }

\* C21: when the descriptor of a DESC record conflicts with the one held
\* for its pmid (add_desc answers one of the PM_ERR_LOGCHANGE codes), the
\* loader gives up that record only: it is in the loop again at the next
\* record's boundary, and the records that follow are processed.
C21_ConflictSkipsRecordOnly ==
    [][ \A i \in 1..Len(ld.recs) :
          (/\ AtRecord(i)
           /\ ld.recs[i][2] = TYPE_DESC
           /\ GoodTrailer(i)
           /\ pmLogAddDesc(l_hashpmid, DescOfRec(ld.recs[i])).sts \in LogChanges)
          => /\ ld'.pc = "loop"
             /\ ld'.pos = Boundary(ld.recs, i + 1) ]_vars

\* every node of the table old is still in new, behind the nodes added
Extends(old, new) ==
    /\ Len(new) >= Len(old)
    /\ SubSeq(new, Len(new) - Len(old) + 1, Len(new)) = old

\* the label store after is the one before with duplicate sets discarded
LabelsDeduped ==
    /\ Len(l_hashlabels') = Len(l_hashlabels)
    /\ \A t \in 1..Len(l_hashlabels) :
          /\ Len(l_hashlabels'[t].data) = Len(l_hashlabels[t].data)
          /\ \A n \in 1..Len(l_hashlabels[t].data) :
                l_hashlabels'[t].data[n].data =
                   DedupedFrom(l_hashlabels[t].data[n].data, 1)

\* C22 as stated: when the loader returns an error the stores hold nothing
\* of the archive, whatever the records before the failure added.
C22_FailedLoadLeavesNothing ==
    (ld.pc = "done" /\ ld.sts < 0)
    => /\ l_hashpmid = <<>>
       /\ l_hashindom = <<>>
       /\ l_hashlabels = <<>>
       /\ l_hashtext = <<>>

\* C22 amended: a failed load returns the error that ended the loop and
\* leaves the catalog in the state reached when the error occurred: the
\* failing record takes nothing back, and from the label end on the
\* descriptors, indom snapshots and text entries stay as they are while the
\* label store only loses the duplicate sets check_dup_labels discards.
C22_FailedLoadKeepsState ==
    [][ /\ (ld.pc = "loop" /\ ld'.pc = "end" /\ ld'.sts < 0)
            => /\ Extends(l_hashpmid, l_hashpmid')
               /\ Extends(l_hashtext, l_hashtext')
               /\ l_hashindom' = l_hashindom
               /\ l_hashlabels' = l_hashlabels
        /\ (ld.pc = "end" /\ ld.sts < 0)
            => /\ ld'.pc = "done"
               /\ ld'.sts = ld.sts
               /\ call'.sts = ld.sts
               /\ SameButLabels
               /\ LabelsDeduped ]_vars

C22_Witness ==
    /\ ld.pc = "done"
    /\ ld.sts = PM_ERR_LOGREC
    /\ l_hashpmid /= <<>>
    /\ l_hashtext /= <<>>
    /\ Len(ld.recs) = 3

\* the names the name space holds for a pmid
NamesOf(pmns, pmid) ==
    { pmns[n].name : n \in { k \in 1..Len(pmns) : pmns[k].pmid = pmid } }

Range(seq) ==
    { seq[n] : n \in 1..Len(seq) }

\* C23: the DESC record put_desc wrote for a descriptor and its numnames >= 0
\* names, numnames = 0 included, is decoded by the loader into that
\* descriptor and those names, and its trailer check succeeds (the loader
\* goes on at the next record).  Records whose descriptor or names clash
\* with what the catalog holds already are left aside.
C23_DescRoundTrip ==
    [][ \A i \in 1..Len(ld.recs) :
          (/\ AtRecord(i)
           /\ pmLogAddDesc(l_hashpmid, ld.put[i].dp).sts >= 0
           /\ \A n \in 1..Len(l_pmns) :
                 l_pmns[n].name \in Range(ld.put[i].names)
                 => l_pmns[n].pmid = ld.put[i].dp.pmid)
          => /\ ld'.pc = "loop"
             /\ ld'.pos = Boundary(ld.recs, i + 1)
             /\ pmLogLookupDesc(l_hashpmid', ld.put[i].dp.pmid) =
                   [sts |-> 0, dp |-> <<ld.put[i].dp>>]
             /\ NamesOf(l_pmns', ld.put[i].dp.pmid) =
                   NamesOf(l_pmns, ld.put[i].dp.pmid) \cup Range(ld.put[i].names)
       ]_vars

\* the same for the records written with at least one name
C23_DescRoundTripNamed ==
    [][ \A i \in 1..Len(ld.recs) :
          (/\ AtRecord(i)
           /\ \A k \in 1..Len(ld.put) : ld.put[k].names /= <<>>
           /\ pmLogAddDesc(l_hashpmid, ld.put[i].dp).sts >= 0
           /\ \A n \in 1..Len(l_pmns) :
                 l_pmns[n].name \in Range(ld.put[i].names)
                 => l_pmns[n].pmid = ld.put[i].dp.pmid)
          => /\ ld'.pc = "loop"
             /\ ld'.pos = Boundary(ld.recs, i + 1)
             /\ pmLogLookupDesc(l_hashpmid', ld.put[i].dp.pmid) =
                   [sts |-> 0, dp |-> <<ld.put[i].dp>>]
             /\ NamesOf(l_pmns', ld.put[i].dp.pmid) =
                   NamesOf(l_pmns, ld.put[i].dp.pmid) \cup Range(ld.put[i].names)
       ]_vars

C25_TimestampNetworkOrder ==
    call.op = "timestamp"
    => /\ call.ret.buf = call.arg.sec \o Bytes32(call.arg.nsec)
       /\ call.ret.tsp = [sec |-> call.arg.sec, nsec |-> call.arg.nsec]

\* the same on a big-endian host alone
C25_TimestampBigEndian ==
    (call.op = "timestamp" /\ call.arg.host = "big")
    => /\ call.ret.buf = call.arg.sec \o Bytes32(call.arg.nsec)
       /\ call.ret.tsp = [sec |-> call.arg.sec, nsec |-> call.arg.nsec]

\* walking the sets of a LABEL payload p (the words after the header) from
\* word k on: some set, reached with the sets before it sound and inside the
\* payload, has jsonlen outside [0, PM_MAXLABELJSONLEN], or nlabels > 0 with
\* its pmLabels running past the end of the payload
RECURSIVE SomeSetCorrupt(_, _, _, _)
SomeSetCorrupt(p, k, i, nsets) ==
    IF i >= nsets \/ k + 2 > Len(p) THEN FALSE
    ELSE IF p[k + 2] < 0 \/ p[k + 2] > PM_MAXLABELJSONLEN THEN TRUE
    ELSE IF k + 2 + p[k + 2] \div 4 + 1 > Len(p) THEN FALSE
    ELSE LET nlabels == p[k + 2 + p[k + 2] \div 4 + 1]
             after   == k + 2 + p[k + 2] \div 4 + 1
         IN  IF nlabels > 0 /\ nlabels > (Len(p) - after) \div 2 THEN TRUE
             ELSE SomeSetCorrupt(p, after + (IF nlabels > 0 THEN 2 * nlabels ELSE 0),
                                 i + 1, nsets)

\* record i is a LABEL or LABEL_V2 record with such a set
CorruptLabelRec(rec) ==
    /\ rec[2] \in { TYPE_LABEL, TYPE_LABEL_V2 }
    /\ LET p    == SubSeq(rec, 3, Len(rec) - 1)
           skip == IF rec[2] = TYPE_LABEL_V2 THEN 2 ELSE 3
       IN  /\ Len(p) >= skip + 3
           /\ SomeSetCorrupt(p, skip + 3, 0, p[skip + 3])

\* C26: on a LABEL or LABEL_V2 record in which some set has jsonlen outside
\* [0, PM_MAXLABELJSONLEN], or nlabels > 0 with cursor + nlabels *
\* sizeof(pmLabel) beyond the end of the payload, the loader goes to its end
\* with PM_ERR_LOGREC, returns PM_ERR_LOGREC, and no label group is added.
C26_CorruptLabelRejected ==
    [][ /\ \A i \in 1..Len(ld.recs) :
            (AtRecord(i) /\ CorruptLabelRec(ld.recs[i]))
            => /\ ld'.pc = "end"
               /\ ld'.sts = PM_ERR_LOGREC
               /\ l_hashlabels' = l_hashlabels
        /\ (ld.pc = "end" /\ ld.sts = PM_ERR_LOGREC)
            => /\ ld'.pc = "done"
               /\ ld'.sts = PM_ERR_LOGREC
               /\ call'.sts = PM_ERR_LOGREC
               /\ LabelsDeduped ]_vars

\* the loader has returned from a file whose third record has a corrupt
\* second set, the groups of the two records before it in the store
C26_Witness ==
    /\ ld.pc = "done"
    /\ ld.sts = PM_ERR_LOGREC
    /\ Len(ld.recs) = 3
    /\ ld.recs[3] \in { LabelSetsRec(TYPE_LABEL, 2, 2, SetWords(4, 1) \o SetWords(-4, 1)),
                         LabelSetsRec(TYPE_LABEL_V2, 2, 2, SetWords(4, 1) \o SetWords(4, 2)) }
    /\ SumGroups(l_hashlabels, 1) = 2

\* the loader neither left the model's word grid nor read outside a buffer
LoadInModel ==
    /\ ld.pos % 4 = 0
    /\ ld.pc \in { "idle", "write", "loop", "end", "done", "abort" }

(***************************************************************************)
(* Claims about the union query.                                           *)
(***************************************************************************)
\* the (id, name) pairs of a chain, head to tail, each snapshot in its order
RECURSIVE Pairs(_, _)
Pairs(chain, n) ==
    IF n > Len(chain) THEN <<>>
    ELSE [j \in 1..chain[n].numinst |->
             [id |-> chain[n].instlist[j], name |-> chain[n].namelist[j]]]
         \o Pairs(chain, n + 1)

\* where id is first seen in the pairs
FirstSeen(ps, id) ==
    CHOOSE k \in 1..Len(ps) : ps[k].id = id /\ \A m \in 1..(k - 1) : ps[m].id /= id

\* the lists are the union of the pairs: each id once, in first-seen order,
\* under its first-seen name
IsUnion(ps, instlist, namelist) ==
    /\ Len(namelist) = Len(instlist)
    /\ \A k \in 1..Len(ps) :
           Cardinality({ i \in 1..Len(instlist) : instlist[i] = ps[k].id }) = 1
    /\ \A i \in 1..Len(instlist) : \E k \in 1..Len(ps) : ps[k].id = instlist[i]
    /\ \A i, j \in 1..Len(instlist) :
           i < j => FirstSeen(ps, instlist[i]) < FirstSeen(ps, instlist[j])
    /\ \A i \in 1..Len(instlist) :
           namelist[i] = ps[FirstSeen(ps, instlist[i])].name

\* a union query of a chain the store holds has just been made
UnionAsked ==
    /\ call.op = "getindomarchive"
    /\ HashSearch(call.arg.indom, l_hashindom) /= 0

\* C27: pmGetInDomArchive returns every instance id of the chain's snapshots
\* exactly once, in first-seen order from the head of the chain to its tail,
\* each with the name of the snapshot where it was first seen
C27_UnionFirstSeen ==
    UnionAsked =>
        /\ call.ret.pc = "done"
        /\ call.sts = Len(call.ret.ilist)
        /\ IsUnion(Pairs(ChainOf(l_hashindom, call.arg.indom), 1),
                   call.ret.ilist, call.ret.nlist)

\* the same for the chains whose ids index the table within its bounds
C27_UnionFirstSeenInTable ==
    (/\ UnionAsked
     /\ \A n \in 1..Len(ChainOf(l_hashindom, call.arg.indom)) :
            \A j \in 1..ChainOf(l_hashindom, call.arg.indom)[n].numinst :
                ChainOf(l_hashindom, call.arg.indom)[n].instlist[j] >= 0) =>
        /\ call.ret.pc = "done"
        /\ call.sts = Len(call.ret.ilist)
        /\ IsUnion(Pairs(ChainOf(l_hashindom, call.arg.indom), 1),
                   call.ret.ilist, call.ret.nlist)

\* what pmGetInDomArchive answers for the chain hp with no other thread in it
Alone(hp) ==
    pmGetInDomArchive(HashAdd(1, hp, <<>>), 1, NoIhash,
                      CHOOSE ub \in OutOfBounds : TRUE).fr

\* C28: two pmGetInDomArchive calls running concurrently in two threads on
\* different archive contexts each return what they return when run alone;
\* no static state shared between them affects their results
C28_ConcurrentUnionAsAlone ==
    \A t \in Threads :
        (un[t].pc = "done" /\ un[t].sts >= 0) =>
            /\ un[t].sts = Alone(un[t].hp).sts
            /\ un[t].ilist = Alone(un[t].hp).ilist
            /\ un[t].nlist = Alone(un[t].hp).nlist

(***************************************************************************)
(* Claims about the lookup by name.                                        *)
(***************************************************************************)
\* the snapshot a lookup selects, as a one-element sequence; <<>> if none
Selected(arg) ==
    LET r == searchindom(l_hashindom, arg.indom, arg.stamp)
    IN  IF r.idp = 0 THEN <<>> ELSE <<l_hashindom[r.hp].data[r.idp]>>

\* the name of an instance up to its first space
UpToSpace(s) ==
    SubSeq(s, 1, pmLogLookupInDom_span(s))

\* what the lookup of name in snapshot sn is to return
LookupOf(sn, name, sts) ==
    LET exact  == { i \in 1..sn.numinst : sn.namelist[i] = name }
        prefix == { i \in 1..sn.numinst : UpToSpace(sn.namelist[i]) = name }
    IN  IF exact /= {} THEN \E i \in exact : sts = sn.instlist[i]
        ELSE IF prefix /= {}
        THEN sts = sn.instlist[CHOOSE i \in prefix : \A k \in prefix : i <= k]
        ELSE sts = PM_ERR_INST_LOG

\* C29: __pmLogLookupInDom on the snapshot selected for the stamp returns the
\* id of an instance whose name equals name exactly whenever there is one,
\* even if an earlier instance prefix-matches; otherwise the id of the first
\* instance whose name up to its first space equals name; otherwise
\* PM_ERR_INST_LOG
C29_LookupExactThenPrefix ==
    (call.op = "lookupindom" /\ Selected(call.arg) /= <<>>) =>
        LookupOf(Selected(call.arg)[1], call.arg.name, call.sts)

\* the same when no instance's name up to its first space is a proper prefix
\* of name
C29_LookupNoProperPrefix ==
    (/\ call.op = "lookupindom"
     /\ Selected(call.arg) /= <<>>
     /\ \A i \in 1..Selected(call.arg)[1].numinst :
            LET s == Selected(call.arg)[1].namelist[i]
            IN  ~ (/\ pmLogLookupInDom_span(s) < Len(s)
                   /\ pmLogLookupInDom_span(s) < Len(call.arg.name)
                   /\ Take(call.arg.name, pmLogLookupInDom_span(s)) = UpToSpace(s))) =>
        LookupOf(Selected(call.arg)[1], call.arg.name, call.sts)

(***************************************************************************)
(* Claims about the decode buffers.                                        *)
(***************************************************************************)
\* C30: each decode buffer of an INDOM record loaded (buf, and namelist when
\* not allinbuf) is in the end either held by exactly one snapshot linked in
\* a chain, when addindom returned 0, or freed exactly once by the loader,
\* when addindom returned PMLOGPUTINDOM_DUP or an error or numinst <= 0;
\* never both, never freed twice, never left unowned
C30_DecodeBufferOwnedOrFreedOnce ==
    \A i \in 1..Len(ld.bufs) :
        /\ ld.bufs[i].frees + ld.bufs[i].refs = 1
        /\ ld.bufs[i].refs = 1 <=> (ld.bufs[i].numinst > 0 /\ ld.bufs[i].sts = 0)

\* a load that linked one record's buffers and freed those of a duplicate and
\* of a record without instances
C30_Witness ==
    /\ ld.pc = "done"
    /\ \E i \in 1..Len(ld.bufs) : ld.bufs[i].what = "namelist" /\ ld.bufs[i].refs = 1
    /\ \E i \in 1..Len(ld.bufs) :
           /\ ld.bufs[i].what = "namelist"
           /\ ld.bufs[i].sts = PMLOGPUTINDOM_DUP
           /\ ld.bufs[i].frees = 1
    /\ \E i \in 1..Len(ld.bufs) : ld.bufs[i].numinst = 0 /\ ld.bufs[i].frees = 1

(***************************************************************************)
(* Claims about the writers.                                               *)
(***************************************************************************)
\* a writer has just returned
PutReturned ==
    call.op \in { "putdesc", "putlabel", "puttext" } /\ call.ret = <<>>

\* the lookup that answers for what the writer was given returns it
PutLookedUp ==
    IF call.op = "putdesc"
    THEN pmLogLookupDesc(l_hashpmid, call.arg.dp.pmid).dp = <<call.arg.dp>>
    ELSE IF call.op = "putlabel"
    THEN /\ pmLogLookupLabel(l_hashlabels, call.arg.type, call.arg.ident,
                             <<call.arg.stamp>>).sts = call.arg.nsets
         /\ pmLogLookupLabel(l_hashlabels, call.arg.type, call.arg.ident,
                             <<call.arg.stamp>>).label = call.arg.labelsets
    ELSE pmLogLookupText(l_hashtext, call.arg.ident, call.arg.type).buffer
             = <<call.arg.buffer>>

\* C31: a writer (__pmLogPutDesc, __pmLogPutLabel, __pmLogPutText) updates the
\* in-memory store if and only if its file write succeeded: after a
\* successful return the lookup returns the value written
C31_PutThenLookup ==
    (PutReturned /\ call.sts >= 0) => PutLookedUp

\* C31, the other half: when the write fails the call returns an error and
\* the in-memory stores are unchanged
C31_FailedWriteChangesNothing ==
    [][(call'.op \in { "putdesc", "putlabel", "puttext" } /\ ~call'.arg.written) =>
          /\ call'.sts < 0
          /\ UNCHANGED <<l_hashindom, l_hashpmid, l_hashlabels, l_hashtext, l_pmns>>]_vars

\* C35: while decoding a LABEL or LABEL_V2 record the loader never reads the
\* payload buffer at an offset at or beyond rlen: the cursor stays within
\* the payload for every field read and every json copy, or the record is
\* rejected with PM_ERR_LOGREC before the read
C35_LabelReadsWithinPayload ==
    ~ld.oob

\* the second load of the file has ended
LoadedTwice ==
    ld.run = 2 /\ ld.pc \in { "done", "fault", "abort", "unaligned" }

\* the second load left what the first load left
SameAsFirst ==
    /\ ld.first.cat = [indom |-> l_hashindom, pmid |-> l_hashpmid,
                       labels |-> l_hashlabels, text |-> l_hashtext,
                       pmns |-> l_pmns]
    /\ ld.first.pc = ld.pc
    /\ ld.first.sts = ld.sts

\* C32: loading is deterministic: loading the same record stream into two
\* fresh catalogs produces identical catalogs (descriptors, indom chains,
\* label chains, text entries) and the same return status
C32_LoadTwiceSame ==
    LoadedTwice => SameAsFirst

\* C32 for the files that are read within their buffers
C32_LoadTwiceSameWithinPayload ==
    (LoadedTwice /\ ~ld.oob) => SameAsFirst

\* C33: addlabel on a (type, ident) that already has a chain never discards
\* or hides existing groups: the sole-element path is taken only when no
\* chain exists, and after the call the chain the lookup reaches holds every
\* group that was in it before plus the new one, also when the head group
\* of the chain has nsets <= 0
C33_AddLabelKeepsChain ==
    [][(/\ call'.op = "addlabel"
        /\ call'.sts >= 0
        /\ LabelChainOf(l_hashlabels, call'.arg) /= <<>>) =>
          \E prev \in 0..Len(LabelChainOf(l_hashlabels, call'.arg)) :
             LabelChainOf(l_hashlabels', call'.arg) =
                InsertAfter(LabelChainOf(l_hashlabels, call'.arg), prev,
                            BuiltGroup(call'.arg))]_vars

\* C33 for the chains whose head group holds label sets
C33_AddLabelKeepsChainOfSets ==
    [][(/\ call'.op = "addlabel"
        /\ call'.sts >= 0
        /\ LabelChainOf(l_hashlabels, call'.arg) /= <<>>
        /\ LabelChainOf(l_hashlabels, call'.arg)[1].nsets > 0) =>
          \E prev \in 0..Len(LabelChainOf(l_hashlabels, call'.arg)) :
             LabelChainOf(l_hashlabels', call'.arg) =
                InsertAfter(LabelChainOf(l_hashlabels, call'.arg), prev,
                            BuiltGroup(call'.arg))]_vars

\* every label of set1 has a label in set2 with the same name and value
EachLabelIn(set1, set2) ==
    \A n1 \in 1..set1.nlabels :
       \E n2 \in 1..set2.nlabels :
          /\ set1.labels[n1].name = set2.labels[n2].name
          /\ set1.labels[n1].value = set2.labels[n2].value

\* no two labels of the set have the same name
DistinctNames(set) ==
    \A i, j \in 1..set.nlabels :
       set.labels[i].name = set.labels[j].name => i = j

\* C34: samelabelset(A, B) returns true exactly when A.inst = B.inst,
\* A.nlabels = B.nlabels and every label of A has a label in B with the same
\* name and the same value, and the relation is symmetric, also for sets
\* that contain repeated label names
C34_SameLabelSetExactSymmetric ==
    call.op = "samelabelset" =>
       /\ call.sts = 1 <=> /\ call.arg.set1.inst = call.arg.set2.inst
                           /\ call.arg.set1.nlabels = call.arg.set2.nlabels
                           /\ EachLabelIn(call.arg.set1, call.arg.set2)
       /\ call.sts = call.ret

\* C34 for the sets without repeated label names
C34_SameLabelSetDistinctNames ==
    (/\ call.op = "samelabelset"
     /\ DistinctNames(call.arg.set1)
     /\ DistinctNames(call.arg.set2)) =>
       /\ call.sts = 1 <=> /\ call.arg.set1.inst = call.arg.set2.inst
                           /\ call.arg.set1.nlabels = call.arg.set2.nlabels
                           /\ EachLabelIn(call.arg.set1, call.arg.set2)
       /\ call.sts = call.ret

\* C36: find_add_ihash indexes the ihash table with a bucket index in
\* 0 .. HASH_SIZE - 1 for every 32-bit signed instance id, negative ids
\* included
C36_BucketIndexInTable ==
    call.op = "find_add_ihash" => call.ret.i \in 0..(HASH_SIZE - 1)

\* C36 for the ids that are not negative
C36_BucketIndexOfNatural ==
    (call.op = "find_add_ihash" /\ call.arg.id >= 0) =>
        call.ret.i \in 0..(HASH_SIZE - 1)

\* find_add_ihash reports an id as already seen if and only if the id was
\* added earlier, since the table was reset
C37_SeenIffAdded ==
    call.op = "find_add_ihash" =>
        /\ ~call.ret.fault
        /\ call.sts = 1 <=> call.arg.id \in call.arg.before

\* the same for the ids that are not negative
C37_SeenIffAddedNatural ==
    (call.op = "find_add_ihash" /\ \A id \in IhashAdded : id >= 0) =>
        /\ ~call.ret.fault
        /\ call.sts = 1 <=> call.arg.id \in call.arg.before

\* what the linear path makes of the chain hp
LinearPath(hp) ==
    pmGetInDomArchive_loops(
        [fr |-> pmGetInDomArchive_next([NoQuery EXCEPT !.pc = "loop", !.hp = hp]),
         ih |-> NoIhash],
        [ret |-> 0, fault |-> FALSE]).fr

\* a union query has just taken the hash path
HashPathTaken ==
    UnionAsked /\ call.ret.big_indom = 1

\* C37: the two de-duplication paths of pmGetInDomArchive are equivalent:
\* for any chain the hash path, taken after reset_ihash when some snapshot
\* has more than HASH_THRESHOLD instances, and the linear path produce the
\* same instance list and the same name list
C37_HashPathAsLinear ==
    HashPathTaken =>
        /\ call.ret.pc = "done"
        /\ call.ret.ilist = LinearPath(ChainOf(l_hashindom, call.arg.indom)).ilist
        /\ call.ret.nlist = LinearPath(ChainOf(l_hashindom, call.arg.indom)).nlist

\* C37 for the chains whose ids index the table within its bounds
C37_HashPathAsLinearInTable ==
    (/\ HashPathTaken
     /\ \A n \in 1..Len(ChainOf(l_hashindom, call.arg.indom)) :
            \A j \in 1..ChainOf(l_hashindom, call.arg.indom)[n].numinst :
                ChainOf(l_hashindom, call.arg.indom)[n].instlist[j] >= 0) =>
        /\ call.ret.pc = "done"
        /\ call.ret.ilist = LinearPath(ChainOf(l_hashindom, call.arg.indom)).ilist
        /\ call.ret.nlist = LinearPath(ChainOf(l_hashindom, call.arg.indom)).nlist

\* p maps each place of the sorted arrays to the place the instance had in
\* the caller's arrays
SortedBy(p, in, out) ==
    /\ \A k, l \in DOMAIN p : p[k] = p[l] => k = l
    /\ \A k \in DOMAIN p :
          /\ out.instlist[k] = in.instlist[p[k]]
          /\ out.namelist[k] = in.namelist[p[k]]
    /\ \A k, l \in DOMAIN p :
          k < l => \/ out.instlist[k] < out.instlist[l]
                   \/ out.instlist[k] = out.instlist[l] /\ p[k] < p[l]

\* C39: addinsts leaves the instance arrays sorted ascending by id, as a
\* permutation of the input in which each id stays paired with its own name,
\* and stably: instances with equal ids keep their input order
C39_AddInstsStableSort ==
    call.op = "addinsts" =>
        /\ call.ret.numinst = Len(call.arg.instlist)
        /\ Len(call.ret.instlist) = call.ret.numinst
        /\ Len(call.ret.namelist) = call.ret.numinst
        /\ \E p \in [1..call.ret.numinst -> 1..call.ret.numinst] :
              SortedBy(p, call.arg, call.ret)

\* three instances out of order, two of them with the same id
C39_Witness ==
    /\ call.op = "addinsts"
    /\ call.arg.instlist = <<3, 1, 3>>
    /\ call.ret.instlist = <<1, 3, 3>>
    /\ call.ret.namelist = <<"2", "1", "3">>

\* C38: re-applying a sequence of __pmLogAddInDom calls is idempotent on the
\* indom store: when a sequence S has been applied to a catalog and is
\* applied again, every call of the second pass returns PMLOGPUTINDOM_DUP
\* and every chain ends with the same snapshots in the same order as after
\* the first pass
C38_ReplayIsIdempotent ==
    call.op = "addindom again" =>
        /\ call.sts = PMLOGPUTINDOM_DUP
        /\ call.ret.k = Len(call.ret.S) => l_hashindom = call.ret.first

\* the second pass of three calls is over; on its way it moved a snapshot
\* within a time slot that holds three
C38_Witness ==
    /\ call.op = "addindom again"
    /\ call.ret.k = 3
    /\ Len(call.ret.S) = 3
    /\ call.ret.S[1].stamp = call.ret.S[2].stamp
    /\ call.ret.S[1].in /= call.ret.S[2].in
    /\ Len(ChainOf(l_hashindom, 1)) = 3
    /\ \A n \in 1..3 : ChainOf(l_hashindom, 1)[n].stamp = call.ret.S[1].stamp

====
